---------------------------- MODULE Spec2Model ----------------------------
(***************************************************************************)
(* Model of the air-traffic simulation core: the Aircraft state machine    *)
(* (src/lib/game/Aircraft.ts) and the GameEngine that owns the live        *)
(* aircraft list, the tick, the separation scan and the command parser     *)
(* (GameEngine.ts, kept as src/unnamed/part_005), driven by the animation  *)
(* frame loop of src/components/game/RadarDisplay.tsx.                     *)
(*                                                                         *)
(* The program computes on IEEE doubles; the model computes on integers in *)
(* fixed point:                                                            *)
(*    time      1 = 0.01 s          heading   1 = 0.01 degree              *)
(*    speed     1 = 0.01 knot       altitude  1 = 0.01 altitude unit (1 ft) *)
(*    position  1 = 0.001 mile      score     1 = 0.1 point                *)
(* so every literal of the source appears multiplied by its unit (0.5 mile *)
(* is 500, 40 degrees is 4000, altitude 5 is 500, 50 points are 500).      *)
(* Strings the parser inspects are sequences of one-character strings.     *)
(***************************************************************************)
EXTENDS Integers, Sequences, FiniteSets, TLC

VARIABLES
    airport,      \* GameEngine.airport: [elevation, runways, fixes]
    aircrafts,    \* GameEngine.aircrafts: the live list, in array order
    score,        \* GameEngine.score
    spawnTimer,   \* GameEngine.spawnTimer
    logs,         \* what the last handler passed to onLog, in order
    updated,      \* the list as the last tick's update pass left it (before removal)
    events,       \* the callbacks the last handler fired besides onLog, in order
    initPc,       \* where GameEngine.init stands: at an await, "done" or "failed"
    last,         \* the last handler that ran, with its input
    ticksLeft,    \* frames the run may still take
    cmdsLeft,     \* command lines the run may still take
    spawnClock    \* n: the timer-driven spawns so far; ticks, time: the frames and the
                  \* simulated time since the last of them, or since construction

vars == <<airport, aircrafts, score, spawnTimer, logs, updated, events, initPc, last,
         ticksLeft, cmdsLeft, spawnClock>>

---------------------------------------------------------------------------
(* Arithmetic of the source's Math.* calls, on the fixed-point grid.       *)

Abs(n) == IF n < 0 THEN -n ELSE n

Sign(n) == IF n > 0 THEN 1 ELSE IF n < 0 THEN -1 ELSE 0

Min(a, b) == IF a < b THEN a ELSE b

\* a / b rounded to the nearest integer (b > 0)
Round(a, b) == (2 * a + b) \div (2 * b)

\* sin(d degrees) * 10000 for d = 0..90
SinTab ==
   <<
      0, 175, 349, 523, 698, 872, 1045, 1219, 1392, 1564, 1736, 1908,
      2079, 2250, 2419, 2588, 2756, 2924, 3090, 3256, 3420, 3584, 3746, 3907,
      4067, 4226, 4384, 4540, 4695, 4848, 5000, 5150, 5299, 5446, 5592, 5736,
      5878, 6018, 6157, 6293, 6428, 6561, 6691, 6820, 6947, 7071, 7193, 7314,
      7431, 7547, 7660, 7771, 7880, 7986, 8090, 8192, 8290, 8387, 8480, 8572,
      8660, 8746, 8829, 8910, 8988, 9063, 9135, 9205, 9272, 9336, 9397, 9455,
      9511, 9563, 9613, 9659, 9703, 9744, 9781, 9816, 9848, 9877, 9903, 9925,
      9945, 9962, 9976, 9986, 9994, 9998, 10000
   >>

\* atan(k / 64) in hundredths of a degree for k = 0..64
AtanTab ==
   <<
      0, 90, 179, 268, 358, 447, 536, 624, 713, 800, 888, 975,
      1062, 1148, 1234, 1319, 1404, 1488, 1571, 1653, 1735, 1817, 1897, 1977,
      2056, 2134, 2211, 2287, 2363, 2438, 2511, 2584, 2657, 2728, 2798, 2867,
      2936, 3003, 3070, 3136, 3201, 3264, 3327, 3390, 3451, 3511, 3571, 3629,
      3687, 3744, 3800, 3855, 3909, 3963, 4016, 4067, 4119, 4169, 4218, 4267,
      4315, 4363, 4409, 4455, 4500
   >>

\* sin of a whole number of degrees, scaled by 10000
SinDeg(d) ==
    LET r == d % 360
    IN  IF r <= 90 THEN SinTab[r + 1]
        ELSE IF r <= 180 THEN SinTab[180 - r + 1]
        ELSE IF r <= 270 THEN -SinTab[r - 180 + 1]
        ELSE -SinTab[360 - r + 1]

\* Math.sin of an angle given in hundredths of a degree, scaled by 10000
Sin(c) ==
    LET r == c % 36000
        d == r \div 100
        f == r % 100
    IN  SinDeg(d) + Round((SinDeg(d + 1) - SinDeg(d)) * f, 100)

\* Math.cos of an angle given in hundredths of a degree, scaled by 10000
Cos(c) == Sin(c + 9000)

\* atan(n / d) for 0 <= n <= d, d > 0, in hundredths of a degree
AtanRatio(n, d) ==
    LET q == (n * 6400) \div d
        k == q \div 100
        f == q % 100
    IN  IF k >= 64 THEN AtanTab[65]
        ELSE AtanTab[k + 1] + Round((AtanTab[k + 2] - AtanTab[k + 1]) * f, 100)

\* Math.atan2(dy, dx) * 180 / Math.PI, in hundredths of a degree, in (-18000, 18000]
Atan2(dy, dx) ==
    LET ax == Abs(dx)
        ay == Abs(dy)
        a  == IF ax = 0 /\ ay = 0 THEN 0
              ELSE IF ay <= ax THEN AtanRatio(ay, ax)
              ELSE 9000 - AtanRatio(ax, ay)
    IN  IF dy >= 0 THEN (IF dx >= 0 THEN a ELSE 18000 - a)
        ELSE (IF dx >= 0 THEN -a ELSE a - 18000)

\* Math.hypot(dx, dy) < r, for r up to 15 miles (the guards keep the squares small)
HypotLt(dx, dy, r) ==
    /\ Abs(dx) < r
    /\ Abs(dy) < r
    /\ dx * dx + dy * dy < r * r

\* Math.hypot(dx, dy) > r, for r up to 1 mile
HypotGtNear(dx, dy, r) ==
    \/ Abs(dx) > r
    \/ Abs(dy) > r
    \/ dx * dx + dy * dy > r * r

\* Math.hypot(x, y) > r for r = 50 miles: exact, with every product below 2^31
HypotGtFar(x, y, r) ==
    LET a == IF Abs(x) >= Abs(y) THEN Abs(x) ELSE Abs(y)
        b == IF Abs(x) >= Abs(y) THEN Abs(y) ELSE Abs(x)
        h == (r * 7071) \div 10000       \* just under r / sqrt(2)
    IN  IF a > r THEN TRUE
        ELSE IF b > h + 1 THEN TRUE
        ELSE IF a <= h THEN FALSE
        ELSE b * b > (r - a) * (r + a)

---------------------------------------------------------------------------
(* Aircraft (src/lib/game/Aircraft.ts).  A nullable field is the empty     *)
(* sequence for null and a one-element sequence for an object.             *)

Null == << >>

\* AircraftStats defaults used when the engine has no specs for the type
speed_cruise == 25000

speed_landing == 14000

rate_climb == 8

rate_turn == 3

\* new Aircraft(id, type, x, y, heading, altitude, speed, isArrival)
Aircraft(id, x, y, heading, altitude, speed, isArrival) ==
    [ id |-> id, x |-> x, y |-> y, heading |-> heading, altitude |-> altitude,
      speed |-> speed, isArrival |-> isArrival,
      targetHeading |-> heading, targetAltitude |-> altitude, targetSpeed |-> speed,
      navFix |-> Null, landingRunway |-> Null,
      isOnGround |-> (~isArrival /\ altitude = 0), isTakingOff |-> FALSE,
      expedite |-> FALSE, holding |-> FALSE,
      history |-> << >>, violation |-> FALSE ]

\* setHeading turning the aircraft at once
setHeading_atOnce(ac, h) ==
    [ac EXCEPT !.targetHeading = h, !.heading = h, !.navFix = Null,
               !.landingRunway = Null, !.holding = FALSE]

setHeading(ac, h) ==
    [ac EXCEPT !.targetHeading = h, !.navFix = Null, !.landingRunway = Null,
               !.holding = FALSE]

\* setAltitude keeping an expedite flag that is already set
setAltitude_stickyExpedite(ac, a, expedite) ==
    [ac EXCEPT !.targetAltitude = a, !.expedite = ac.expedite \/ expedite]

setAltitude(ac, a, expedite) ==
    [ac EXCEPT !.targetAltitude = a, !.expedite = expedite]

\* setFix without the reset of landingRunway
setFix_keepLanding(ac, fixName, fixPos) ==
    [ac EXCEPT !.navFix = << [name |-> fixName, x |-> fixPos.x, y |-> fixPos.y] >>,
               !.holding = FALSE]

setFix(ac, fixName, fixPos) ==
    [ac EXCEPT !.navFix = << [name |-> fixName, x |-> fixPos.x, y |-> fixPos.y] >>,
               !.landingRunway = Null, !.holding = FALSE]

setLanding(ac, runway) ==
    [ac EXCEPT !.landingRunway = << runway >>, !.navFix = Null, !.holding = FALSE]

\* takeoff() in whatever state the aircraft is in
takeoff_anyState(ac) ==
    [ac EXCEPT !.isTakingOff = TRUE, !.isOnGround = FALSE,
               !.speed = speed_landing, !.targetSpeed = speed_cruise]

takeoff(ac) ==
    IF ac.isOnGround /\ ac.targetAltitude > 0
    THEN [ac EXCEPT !.isTakingOff = TRUE, !.isOnGround = FALSE,
                    !.speed = speed_landing, !.targetSpeed = speed_cruise]
    ELSE ac

\* the bearing without the quarter turn from the mathematical angle to the compass
bearingOf_noQuarterTurn(dx, dy) ==
    LET b == Atan2(dy, dx)
    IN  IF b < 0 THEN b + 36000 ELSE b

\* the compass bearing of the offset (dx, dy): atan2 in degrees plus 90, in [0, 360)
bearingOf(dx, dy) ==
    LET b == Atan2(dy, dx) + 9000
    IN  IF b < 0 THEN b + 36000 ELSE b

\* update: "Speed Logic"
speedLogic(ac, dt) ==
    IF ac.speed # ac.targetSpeed
    THEN LET accel == 2 * dt
         IN  IF Abs(ac.targetSpeed - ac.speed) < accel
             THEN [ac EXCEPT !.speed = ac.targetSpeed]
             ELSE [ac EXCEPT !.speed = ac.speed + Sign(ac.targetSpeed - ac.speed) * accel]
    ELSE ac

\* the touchdown condition without the test of targetAltitude
touchdownCond_anyTarget(ac) ==
    /\ ac.landingRunway # Null
    /\ HypotLt(ac.landingRunway[1].x - ac.x, ac.landingRunway[1].y - ac.y, 500)
    /\ ac.altitude < 500

\* update: "Landing Logic (Touchdown)": the condition, at the navigation step
touchdownCond(ac) ==
    /\ ac.landingRunway # Null
    /\ HypotLt(ac.landingRunway[1].x - ac.x, ac.landingRunway[1].y - ac.y, 500)
    /\ ac.altitude < 500
    /\ ac.targetAltitude = 0

\* update: the touchdown assignment
touchdown(ac) ==
    IF touchdownCond(ac)
    THEN [ac EXCEPT !.isOnGround = TRUE, !.speed = 0, !.targetSpeed = 0]
    ELSE ac

\* the intercept rule beginning the descent anywhere inside the terminal area
intercept_descendAt15(ac) ==
    LET rwy     == ac.landingRunway[1]
        dx      == rwy.x - ac.x
        dy      == rwy.y - ac.y
        bearing == bearingOf(dx, dy)
        aligned == Abs(ac.heading - rwy.heading) < 4000 \/ HypotLt(dx, dy, 3000)
    IN  IF HypotLt(dx, dy, 15000)
        THEN IF aligned
             THEN [ac EXCEPT
                     !.targetHeading = IF HypotLt(dx, dy, 1000) THEN rwy.heading ELSE bearing,
                     !.targetAltitude = 0]
             ELSE [ac EXCEPT !.targetHeading = bearing]
        ELSE [ac EXCEPT !.targetHeading = bearing]

\* update: the terminal-area / far-out rule of the landing branch
intercept(ac) ==
    LET rwy     == ac.landingRunway[1]
        dx      == rwy.x - ac.x
        dy      == rwy.y - ac.y
        bearing == bearingOf(dx, dy)
        headingDiff == Abs(ac.heading - rwy.heading)
        aligned == headingDiff < 4000 \/ HypotLt(dx, dy, 3000)
    IN  IF HypotLt(dx, dy, 15000)
        THEN IF aligned
             THEN [ac EXCEPT
                     !.targetHeading = IF HypotLt(dx, dy, 1000) THEN rwy.heading ELSE bearing,
                     !.targetAltitude = IF HypotLt(dx, dy, 12000) THEN 0 ELSE @]
             ELSE [ac EXCEPT
                     !.targetHeading = IF HypotLt(dx, dy, 2000) THEN rwy.heading ELSE bearing,
                     !.targetAltitude = IF HypotLt(dx, dy, 2000) THEN 0 ELSE @]
        ELSE [ac EXCEPT !.targetHeading = bearing]

\* update: "Navigation Logic"
navigationLogic(ac) ==
    IF ac.navFix # Null
    THEN [ac EXCEPT !.targetHeading =
                       bearingOf(ac.navFix[1].x - ac.x, ac.navFix[1].y - ac.y)]
    ELSE IF ac.landingRunway # Null
         THEN intercept(touchdown(ac))
         ELSE ac

\* update: "Heading Logic", the wrap of the difference into [-180, 180]
headingDiffWrap(d) ==
    LET d1 == IF d > 18000 THEN d - 36000 ELSE d
    IN  IF d1 < -18000 THEN d1 + 36000 ELSE d1

\* update: "Heading Logic", the wrap of the new heading
headingWrap(h) ==
    LET h1 == IF h < 0 THEN h + 36000 ELSE h
    IN  IF h1 >= 36000 THEN h1 - 36000 ELSE h1

headingLogic(ac, dt) ==
    IF ac.heading # ac.targetHeading
    THEN LET diff     == headingDiffWrap(ac.targetHeading - ac.heading)
             turnRate == rate_turn * dt
             h        == IF Abs(diff) < turnRate THEN ac.targetHeading
                         ELSE ac.heading + Sign(diff) * turnRate
         IN  [ac EXCEPT !.heading = headingWrap(h)]
    ELSE ac

\* update: "Altitude Logic"
altitudeLogic(ac, dt) ==
    IF ac.altitude # ac.targetAltitude
    THEN LET rate == IF ac.expedite THEN rate_climb * dt * 2 ELSE rate_climb * dt
         IN  IF Abs(ac.targetAltitude - ac.altitude) < rate
             THEN [ac EXCEPT !.altitude = ac.targetAltitude]
             ELSE [ac EXCEPT !.altitude =
                               ac.altitude + Sign(ac.targetAltitude - ac.altitude) * rate]
    ELSE ac

\* update: "Movement".  moveDist is kept in millionths of a mile:
\* speed * 1.15 / 3600 * dt * 5 miles = speed[0.01 kt] * dt[0.01 s] * 23 / 144 millionths
moveDist(ac, dt) == Round(ac.speed * dt * 23, 144)

movement(ac, dt) ==
    LET rad == ac.heading - 9000
    IN  [ac EXCEPT !.x = ac.x + Round(Cos(rad) * moveDist(ac, dt), 10000000),
                   !.y = ac.y + Round(Sin(rad) * moveDist(ac, dt), 10000000)]

\* update: "Trail"
trail(ac) ==
    IF Len(ac.history) = 0
       \/ HypotGtNear(ac.x - ac.history[1].x, ac.y - ac.history[1].y, 500)
    THEN LET h == << [x |-> ac.x, y |-> ac.y] >> \o ac.history
         IN  [ac EXCEPT !.history = IF Len(h) > 5 THEN SubSeq(h, 1, 5) ELSE h]
    ELSE ac

\* update(dt) without the ground gate
update_noGate(ac, dt) ==
    trail(movement(altitudeLogic(headingLogic(navigationLogic(speedLogic(ac, dt)), dt), dt), dt))

\* Aircraft.update(dt)
update(ac, dt) ==
    IF ac.isOnGround /\ ~ac.isTakingOff
    THEN ac
    ELSE trail(movement(altitudeLogic(headingLogic(navigationLogic(speedLogic(ac, dt)), dt), dt), dt))

---------------------------------------------------------------------------
(* Strings: String.prototype.trim / toUpperCase / split(/\s+/) and parseInt *)

LowerAlpha == <<"a","b","c","d","e","f","g","h","i","j","k","l","m",
                "n","o","p","q","r","s","t","u","v","w","x","y","z">>

UpperAlpha == <<"A","B","C","D","E","F","G","H","I","J","K","L","M",
                "N","O","P","Q","R","S","T","U","V","W","X","Y","Z">>

Digits == <<"0","1","2","3","4","5","6","7","8","9">>

isSpace(c) == c \in {" ", "\t"}

isDigit(c) == \E d \in 1..10 : Digits[d] = c

digitVal(c) == (CHOOSE d \in 1..10 : Digits[d] = c) - 1

upperChar(c) ==
    IF \E k \in 1..26 : LowerAlpha[k] = c
    THEN UpperAlpha[CHOOSE k \in 1..26 : LowerAlpha[k] = c]
    ELSE c

toUpperCase(s) == [k \in 1..Len(s) |-> upperChar(s[k])]

RECURSIVE trimStart(_)
trimStart(s) ==
    IF Len(s) > 0 /\ isSpace(s[1]) THEN trimStart(Tail(s)) ELSE s

RECURSIVE trimEnd(_)
trimEnd(s) ==
    IF Len(s) > 0 /\ isSpace(s[Len(s)]) THEN trimEnd(SubSeq(s, 1, Len(s) - 1)) ELSE s

trim(s) == trimEnd(trimStart(s))

\* s.split(/\s+/) from position k on, cur being the piece read so far
RECURSIVE splitFrom(_, _, _)
splitFrom(s, k, cur) ==
    IF k > Len(s) THEN << cur >>
    ELSE IF isSpace(s[k])
         THEN IF k < Len(s) /\ isSpace(s[k + 1])
              THEN splitFrom(s, k + 1, cur)
              ELSE << cur >> \o splitFrom(s, k + 1, << >>)
         ELSE splitFrom(s, k + 1, Append(cur, s[k]))

split(s) == splitFrom(s, 1, << >>)

RECURSIVE parseDigits(_, _, _)
parseDigits(s, k, acc) ==
    IF k > Len(s) \/ ~isDigit(s[k]) THEN acc
    ELSE parseDigits(s, k + 1, acc * 10 + digitVal(s[k]))

NaN == << >>

\* parseInt(s): an optional sign, then the leading decimal digits; NaN when there are
\* none.  The result is << n >> for the number n.  (Hexadecimal "0X.." is not modelled.)
parseInt(s) ==
    LET signed == Len(s) >= 1 /\ s[1] \in {"-", "+"}
        first  == IF signed THEN 2 ELSE 1
    IN  IF first > Len(s) \/ ~isDigit(s[first]) THEN NaN
        ELSE IF signed /\ s[1] = "-" THEN << -parseDigits(s, first, 0) >>
        ELSE << parseDigits(s, first, 0) >>

isNaN(v) == v = NaN

---------------------------------------------------------------------------
(* GameEngine (src/unnamed/part_005)                                       *)

\* one onLog message: the template that produced it and the values it interpolates
LogEntry(msg, id, text, num, flag) ==
    [msg |-> msg, id |-> id, text |-> text, num |-> num, flag |-> flag]

\* getAircraft(id): the index of the first aircraft of the list with that id, 0 for none
getAircraft(list, id) ==
    IF \E k \in 1..Len(list) : list[k].id = id
    THEN CHOOSE k \in 1..Len(list) :
            list[k].id = id /\ \A m \in 1..(k - 1) : list[m].id # id
    ELSE 0

\* airport.fixes[val]
\* the lookup answering the first fix of the table for a name the table has not
fixLookup_orFirst(ap, val) ==
    IF \E k \in 1..Len(ap.fixes) : ap.fixes[k].name = val
    THEN << ap.fixes[CHOOSE k \in 1..Len(ap.fixes) : ap.fixes[k].name = val] >>
    ELSE << ap.fixes[1] >>

fixLookup(ap, val) ==
    IF \E k \in 1..Len(ap.fixes) : ap.fixes[k].name = val
    THEN << ap.fixes[CHOOSE k \in 1..Len(ap.fixes) :
                        ap.fixes[k].name = val
                        /\ \A m \in 1..(k - 1) : ap.fixes[m].name # val] >>
    ELSE Null

\* airport.runways.find(r => r.name === rwyName)
runwayFind(ap, rwyName) ==
    IF \E k \in 1..Len(ap.runways) : ap.runways[k].name = rwyName
    THEN << ap.runways[CHOOSE k \in 1..Len(ap.runways) :
                          ap.runways[k].name = rwyName
                          /\ \A m \in 1..(k - 1) : ap.runways[m].name # rwyName] >>
    ELSE Null

\* the heading test with the length of the token left out
isHeadingValue_ge100(num, val) == num >= 100

\* parseAndExecute, case 'C': "Heading (3 digits or >= 100)"
isHeadingValue(num, val) == num >= 100 \/ Len(val) = 3

\* case 'C' leaving an L or R after its value to be dispatched as an instruction
caseC_hintDispatched(st, parts, id, ap) ==
    LET val      == parts[st.i]
        i1       == st.i + 1
        expedite == i1 <= Len(parts) /\ (parts[i1] = <<"X">> \/ parts[i1] = <<"E", "X">>)
        i2       == IF expedite THEN i1 + 1 ELSE i1
    IN  IF ~isNaN(parseInt(val))
        THEN LET num == parseInt(val)[1]
             IN  IF isHeadingValue(num, val)
                 THEN [ac  |-> setHeading(st.ac, num * 100),
                       log |-> Append(st.log, LogEntry("heading", id, val, num, FALSE)),
                       i   |-> i2]
                 ELSE [ac  |-> setAltitude(st.ac, num * 100, expedite),
                       log |-> Append(st.log, LogEntry("altitude", id, val, num, expedite)),
                       i   |-> i2]
        ELSE LET fix == fixLookup(ap, val)
             IN  IF fix # Null
                 THEN [ac  |-> setFix(st.ac, val, fix[1]),
                       log |-> Append(st.log, LogEntry("cleared to", id, val, 0, FALSE)),
                       i   |-> i2]
                 ELSE [ac  |-> st.ac,
                       log |-> Append(st.log, LogEntry("Unknown Fix", id, val, 0, FALSE)),
                       i   |-> i2]

\* parseAndExecute, case 'C', once its value token is known to exist: st is
\* [ac, log, i] with i the index of the value token; the result has i past the
\* tokens the instruction consumed
caseC(st, parts, id, ap) ==
    LET val      == parts[st.i]
        i1       == st.i + 1
        expedite == i1 <= Len(parts) /\ (parts[i1] = <<"X">> \/ parts[i1] = <<"E", "X">>)
        i2       == IF expedite THEN i1 + 1 ELSE i1
        turn     == i2 <= Len(parts) /\ (parts[i2] = <<"L">> \/ parts[i2] = <<"R">>)
        i3       == IF turn THEN i2 + 1 ELSE i2
    IN  IF ~isNaN(parseInt(val))
        THEN LET num == parseInt(val)[1]
             IN  IF isHeadingValue(num, val)
                 THEN [ac  |-> setHeading(st.ac, num * 100),
                       log |-> Append(st.log, LogEntry("heading", id, val, num, FALSE)),
                       i   |-> i3]
                 ELSE [ac  |-> setAltitude(st.ac, num * 100, expedite),
                       log |-> Append(st.log, LogEntry("altitude", id, val, num, expedite)),
                       i   |-> i3]
        ELSE LET fix == fixLookup(ap, val)
             IN  IF fix # Null
                 THEN [ac  |-> setFix(st.ac, val, fix[1]),
                       log |-> Append(st.log, LogEntry("cleared to", id, val, 0, FALSE)),
                       i   |-> i3]
                 ELSE [ac  |-> st.ac,
                       log |-> Append(st.log, LogEntry("Unknown Fix", id, val, 0, FALSE)),
                       i   |-> i3]

\* case 'T' clearing any grounded aircraft, whatever its altitude clearance
caseT_noClearanceTest(st, id) ==
    IF st.ac.isOnGround
    THEN [st EXCEPT !.ac = [st.ac EXCEPT !.isTakingOff = TRUE, !.isOnGround = FALSE,
                                         !.speed = speed_landing,
                                         !.targetSpeed = speed_cruise],
                    !.log = Append(@, LogEntry("cleared for takeoff", id, << >>, 0, FALSE))]
    ELSE [st EXCEPT !.log = Append(@, LogEntry("already airborne", id, << >>, 0, FALSE))]

\* parseAndExecute, case 'T'
caseT(st, id) ==
    IF st.ac.isOnGround
    THEN IF st.ac.targetAltitude > 0
         THEN [st EXCEPT !.ac = takeoff(st.ac),
                         !.log = Append(@, LogEntry("cleared for takeoff", id, << >>, 0, FALSE))]
         ELSE [st EXCEPT
                 !.log = Append(@, LogEntry("needs altitude clearance first", id, << >>, 0, FALSE))]
    ELSE [st EXCEPT !.log = Append(@, LogEntry("already airborne", id, << >>, 0, FALSE))]

\* the height taken above sea level
agl_aboveSeaLevel(ac, ap) == ac.altitude

\* parseAndExecute, case 'L': agl = ac.altitude - elevation / 100
agl(ac, ap) == ac.altitude - ap.elevation

\* parseAndExecute, case 'L', once its runway token is known to exist (st.i is its index)
caseL(st, parts, id, ap) ==
    LET rwyName == parts[st.i]
        rwy     == runwayFind(ap, rwyName)
    IN  IF rwy # Null
        THEN IF agl(st.ac, ap) > 3000
             THEN [st EXCEPT !.i = @ + 1,
                             !.log = Append(@, LogEntry("too high", id, rwyName,
                                                        agl(st.ac, ap), FALSE))]
             ELSE [st EXCEPT !.i = @ + 1,
                             !.ac = setLanding(st.ac, rwy[1]),
                             !.log = Append(@, LogEntry("cleared to land", id, rwyName, 0, FALSE))]
        ELSE [st EXCEPT !.i = @ + 1,
                        !.log = Append(@, LogEntry("Unknown Runway", id, rwyName, 0, FALSE))]

\* parseAndExecute, case 'A'
caseA(st, id) ==
    [st EXCEPT !.ac = [st.ac EXCEPT !.landingRunway = Null, !.navFix = Null],
               !.log = Append(@, LogEntry("approach aborted", id, << >>, 0, FALSE))]

\* case 'W' without its log line
caseW_silent(st, id) == st

\* parseAndExecute, case 'W'
caseW(st, id) ==
    [st EXCEPT !.log = Append(@, LogEntry("hold position", id, << >>, 0, FALSE))]

\* parseAndExecute: the while loop over parts, st.i being the index of the next token
RECURSIVE chain(_, _, _, _)
chain(st, parts, id, ap) ==
    IF st.i > Len(parts) THEN st
    ELSE LET cmd == parts[st.i]
             s1  == [st EXCEPT !.i = @ + 1]
         IN  IF cmd = <<"C">>
             THEN (IF s1.i > Len(parts) THEN s1 ELSE chain(caseC(s1, parts, id, ap), parts, id, ap))
             ELSE IF cmd = <<"T">> THEN chain(caseT(s1, id), parts, id, ap)
             ELSE IF cmd = <<"L">>
             THEN (IF s1.i > Len(parts) THEN s1 ELSE chain(caseL(s1, parts, id, ap), parts, id, ap))
             ELSE IF cmd = <<"A">> THEN chain(caseA(s1, id), parts, id, ap)
             ELSE IF cmd = <<"W">> THEN chain(caseW(s1, id), parts, id, ap)
             ELSE chain(s1, parts, id, ap)

\* parseAndExecute applying nothing of a line that ends in a C or an L without argument
execute_allOrNothing(list, ap, cmdStr) ==
    LET parts == split(toUpperCase(trim(cmdStr)))
    IN  IF Len(parts) < 2 THEN [list |-> list, log |-> << >>]
        ELSE LET id == parts[1]
                 k  == getAircraft(list, id)
             IN  IF k = 0
                 THEN [list |-> list,
                       log  |-> << LogEntry("Unknown ID", id, << >>, 0, FALSE) >>]
                 ELSE LET echo == LogEntry(">", id, toUpperCase(cmdStr), 0, FALSE)
                          r    == chain([ac |-> list[k], log |-> << echo >>, i |-> 2],
                                        parts, id, ap)
                      IN  IF parts[Len(parts)] \in { <<"C">>, <<"L">> }
                          THEN [list |-> list, log |-> << echo >>]
                          ELSE [list |-> [list EXCEPT ![k] = r.ac], log |-> r.log]

\* parseAndExecute(cmdStr) as a function of the engine's list and airport:
\* the list and the log messages it leaves
execute(list, ap, cmdStr) ==
    LET parts == split(toUpperCase(trim(cmdStr)))
    IN  IF Len(parts) < 2 THEN [list |-> list, log |-> << >>]
        ELSE LET id == parts[1]
                 k  == getAircraft(list, id)
             IN  IF k = 0
                 THEN [list |-> list,
                       log  |-> << LogEntry("Unknown ID", id, << >>, 0, FALSE) >>]
                 ELSE LET echo == LogEntry(">", id, toUpperCase(cmdStr), 0, FALSE)
                          r    == chain([ac |-> list[k], log |-> << echo >>, i |-> 2],
                                        parts, id, ap)
                      IN  [list |-> [list EXCEPT ![k] = r.ac], log |-> r.log]

\* the text of a three-digit number, as in 'UAL' + Math.floor(Math.random() * 900 + 100)
numText(n) ==
    << Digits[(n \div 100) + 1], Digits[((n \div 10) % 10) + 1], Digits[(n % 10) + 1] >>

\* spawnArrival(), its Math.random() draws given: the id number, the angle on the
\* 50-mile circle (hundredths of a degree) and the altitude draw 0..49
spawnArrival(num, angle, altDraw) ==
    LET x == Round(Cos(angle) * 50000, 10000)
        y == Round(Sin(angle) * 50000, 10000)
    IN  Aircraft(<<"U", "A", "L">> \o numText(num), x, y, bearingOf(-x, -y),
                 (50 + altDraw) * 100, 25000, TRUE)

\* spawnDeparture(), its draws given: what it adds to the list (nothing without runways)
spawnDeparture(ap, num, rwyDraw) ==
    IF Len(ap.runways) = 0 THEN << >>
    ELSE LET rwy == ap.runways[rwyDraw]
         IN  << Aircraft(<<"A", "A", "L">> \o numText(num), rwy.x, rwy.y, rwy.heading,
                         0, 0, FALSE) >>

\* spawnAircraft(): what it adds to the list, rnd holding the draws
spawnAircraft(ap, rnd) ==
    IF rnd.isArrival
    THEN << spawnArrival(rnd.num, rnd.angle, rnd.altDraw) >>
    ELSE spawnDeparture(ap, rnd.num, rnd.rwyDraw)

\* the filter removing whatever stands on the ground, arrival or not
isRemoved_anyGrounded(ac) ==
    \/ ac.isOnGround /\ ac.speed < 1000
    \/ ~ac.isArrival /\ HypotGtFar(ac.x, ac.y, 50000)

\* update(): the filter predicate's two removal cases
isRemoved(ac) ==
    \/ ac.isArrival /\ ac.isOnGround /\ ac.speed < 1000
    \/ ~ac.isArrival /\ HypotGtFar(ac.x, ac.y, 50000)

\* update(): the callbacks the filter fires on upd[k..], sc being the score so far
RECURSIVE removalEvents(_, _, _)
removalEvents(upd, k, sc) ==
    IF k > Len(upd) THEN << >>
    ELSE IF isRemoved(upd[k])
    THEN << [cb |-> "onScoreUpdated", id |-> << >>, score |-> sc + 500],
            [cb |-> "onAircraftRemoved", id |-> upd[k].id, score |-> 0] >>
         \o removalEvents(upd, k + 1, sc + 500)
    ELSE removalEvents(upd, k + 1, sc)

\* addAircraft(ac): the callback it fires
addedEvents(acs) ==
    [k \in 1..Len(acs) |-> [cb |-> "onAircraftAdded", id |-> acs[k].id, score |-> 0]]

\* the pair (i, j) scanned also when one of the two is on the ground
sepPair_groundedToo(st, i, j) ==
    LET a == st.list[i]
        b == st.list[j]
    IN  IF HypotLt(a.x - b.x, a.y - b.y, 3000) /\ Abs(a.altitude - b.altitude) < 1000
        THEN [list  |-> [st.list EXCEPT ![i].violation = TRUE, ![j].violation = TRUE],
              score |-> st.score - 1]
        ELSE [list  |-> [st.list EXCEPT ![i].violation = FALSE, ![j].violation = FALSE],
              score |-> st.score]

\* checkSeparation(): the body of the inner loop for the pair (i, j), on [list, score]
sepPair(st, i, j) ==
    LET a == st.list[i]
        b == st.list[j]
    IN  IF a.isOnGround \/ b.isOnGround THEN st
        ELSE IF HypotLt(a.x - b.x, a.y - b.y, 3000) /\ Abs(a.altitude - b.altitude) < 1000
        THEN [list  |-> [st.list EXCEPT ![i].violation = TRUE, ![j].violation = TRUE],
              score |-> st.score - 1]
        ELSE [list  |-> [st.list EXCEPT ![i].violation = FALSE, ![j].violation = FALSE],
              score |-> st.score]

\* checkSeparation(): the two nested loops, from the pair (i, j) on
RECURSIVE sepLoop(_, _, _)
sepLoop(st, i, j) ==
    IF i > Len(st.list) THEN st
    ELSE IF j > Len(st.list) THEN sepLoop(st, i + 1, i + 2)
    ELSE sepLoop(sepPair(st, i, j), i, j + 1)

checkSeparation(list, sc) == sepLoop([list |-> list, score |-> sc], 1, 2)

\* the unused draws of a tick in which the spawn timer does not elapse
NoDraw == [isArrival |-> TRUE, num |-> 100, angle |-> 0, altDraw |-> 0, rwyDraw |-> 1,
           interval |-> 0]

\* the tick with the separation scan run first, over the list before removal and spawn
engineUpdate_scanFirst(list, sc, timer, ap, dt, rnd) ==
    LET upd     == [k \in 1..Len(list) |-> update(list[k], dt)]
        sep     == checkSeparation(upd, sc)
        kept    == SelectSeq(sep.list, LAMBDA ac : ~isRemoved(ac))
        sc1     == sep.score + 500 * (Len(upd) - Len(kept))
        timer1  == timer - dt
        new     == IF timer1 <= 0 THEN spawnAircraft(ap, rnd) ELSE << >>
        timer2  == IF timer1 <= 0 THEN 1000 + rnd.interval ELSE timer1
    IN  [aircrafts |-> kept \o new, score |-> sc1, spawnTimer |-> timer2,
         updated |-> upd, events |-> removalEvents(upd, 1, sc) \o addedEvents(new)]

\* the tick with the spawn interval drawn from 1 to 2 seconds
engineUpdate_shortInterval(list, sc, timer, ap, dt, rnd) ==
    LET upd     == [k \in 1..Len(list) |-> update(list[k], dt)]
        kept    == SelectSeq(upd, LAMBDA ac : ~isRemoved(ac))
        sc1     == sc + 500 * (Len(upd) - Len(kept))
        timer1  == timer - dt
        new     == IF timer1 <= 0 THEN spawnAircraft(ap, rnd) ELSE << >>
        spawned == kept \o new
        timer2  == IF timer1 <= 0 THEN 100 + rnd.interval \div 10 ELSE timer1
        sep     == checkSeparation(spawned, sc1)
    IN  [aircrafts |-> sep.list, score |-> sep.score, spawnTimer |-> timer2,
         updated |-> upd, events |-> removalEvents(upd, 1, sc) \o addedEvents(new)]

\* GameEngine.update(dt), rnd holding the Math.random() draws of a spawn
engineUpdate(list, sc, timer, ap, dt, rnd) ==
    LET upd     == [k \in 1..Len(list) |-> update(list[k], dt)]
        kept    == SelectSeq(upd, LAMBDA ac : ~isRemoved(ac))
        sc1     == sc + 500 * (Len(upd) - Len(kept))
        timer1  == timer - dt
        new     == IF timer1 <= 0 THEN spawnAircraft(ap, rnd) ELSE << >>
        spawned == kept \o new
        timer2  == IF timer1 <= 0 THEN 1000 + rnd.interval ELSE timer1
        sep     == checkSeparation(spawned, sc1)
    IN  [aircrafts |-> sep.list, score |-> sep.score, spawnTimer |-> timer2,
         updated |-> upd, events |-> removalEvents(upd, 1, sc) \o addedEvents(new)]

---------------------------------------------------------------------------
(* The handlers                                                            *)

\* the Math.random() draws a spawn may take
Draws ==
    { [isArrival |-> a, num |-> n, angle |-> g, altDraw |-> h, rwyDraw |-> r, interval |-> v] :
        a \in BOOLEAN, n \in {100}, g \in {13500}, h \in {0, 49},
        r \in (IF Len(airport.runways) = 0 THEN {1} ELSE 1..Len(airport.runways)),
        v \in {0, 999} }

\* RadarDisplay's loop(time), elapsed being time - game.lastTime:
\* safeDt = Math.min(dt, 0.1); game.update(safeDt)
loop(elapsed) ==
    /\ ticksLeft > 0
    /\ LET safeDt == Min(elapsed, 10)
       IN  \E rnd \in (IF spawnTimer - safeDt <= 0 THEN Draws ELSE {NoDraw}) :
             LET r == engineUpdate(aircrafts, score, spawnTimer, airport, safeDt, rnd)
             IN  /\ aircrafts' = r.aircrafts
                 /\ score' = r.score
                 /\ spawnTimer' = r.spawnTimer
                 /\ updated' = r.updated
                 /\ events' = r.events
                 /\ logs' = << >>
                 /\ last' = [op |-> "loop", dt |-> safeDt, cmdStr |-> << >>]
                 /\ spawnClock' = IF r.spawnTimer # spawnTimer - safeDt
                                  THEN [n |-> spawnClock.n + 1, ticks |-> 0, time |-> 0]
                                  ELSE [spawnClock EXCEPT !.ticks = @ + 1, !.time = @ + safeDt]
    /\ ticksLeft' = ticksLeft - 1
    /\ UNCHANGED <<airport, initPc, cmdsLeft>>

\* GameEngine.parseAndExecute(cmdStr), called by the command input
parseAndExecute(cmdStr) ==
    /\ cmdsLeft > 0
    /\ LET r == execute(aircrafts, airport, cmdStr)
       IN  /\ aircrafts' = r.list
           /\ logs' = r.log
    /\ events' = << >>
    /\ last' = [op |-> "cmd", dt |-> 0, cmdStr |-> cmdStr]
    /\ cmdsLeft' = cmdsLeft - 1
    /\ UNCHANGED <<airport, score, spawnTimer, updated, initPc, ticksLeft, spawnClock>>

---------------------------------------------------------------------------
(* Airports, aircraft and command lines the runs start from and draw on    *)

\* the pieces of a line joined by single spaces
RECURSIVE join(_)
join(toks) ==
    IF Len(toks) = 1 THEN toks[1] ELSE toks[1] \o <<" ">> \o join(Tail(toks))

UAL100 == <<"U", "A", "L", "1", "0", "0">>
UAL101 == <<"U", "A", "L", "1", "0", "1">>
AAL200 == <<"A", "A", "L", "2", "0", "0">>
ALFIX  == <<"A", "L", "F", "I", "X">>
OBK    == <<"O", "B", "K">>

rwyA   == [name |-> <<"A">>, x |-> -1500, y |-> 1140, heading |-> 28000]
rwyB   == [name |-> <<"B">>, x |-> 4560, y |-> 1300, heading |-> 10000]
rwy36C == [name |-> <<"3", "6", "C">>, x |-> 0, y |-> -6000, heading |-> 36000]

\* the airport of src/lib/game/Airport.ts (two of its runways, two of its fixes)
IGIA ==
    [elevation |-> 668,
     runways   |-> << rwyA, rwyB >>,
     fixes     |-> << [name |-> ALFIX, x |-> 30000, y |-> 0],
                      [name |-> <<"A", "L", "N", "E", "A", "R">>, x |-> 10000, y |-> 500] >>]

\* the legacy airport (one of its runways, one of its fixes)
ORD ==
    [elevation |-> 668,
     runways   |-> << rwy36C >>,
     fixes     |-> << [name |-> OBK, x |-> 10000, y |-> -20000] >>]

\* an arrival in flight: as spawned, then flown to (x, y) at this heading and altitude,
\* cleared to targetAltitude
arrival(id, x, y, heading, altitude, targetAltitude) ==
    [Aircraft(id, x, y, heading, altitude, 25000, TRUE)
        EXCEPT !.targetAltitude = targetAltitude]

\* a departure in flight: spawned on the ground, cleared and taken off earlier
departed(id, x, y, heading, altitude, targetAltitude) ==
    [takeoff(setAltitude(Aircraft(id, x, y, heading, 0, 0, FALSE), 5000, FALSE))
        EXCEPT !.altitude = altitude, !.targetAltitude = targetAltitude,
               !.speed = 25000]

\* the point k thousandths of a mile out on the approach of runway A
onFinalA(k) == [x |-> rwyA.x + Round(985 * k, 1000), y |-> rwyA.y + Round(174 * k, 1000)]

\* one-aircraft lists for the kinematics
NavScenes ==
    {   \* on final to runway A, cleared to land, about to touch down or nearly so
        << setLanding(arrival(UAL100, onFinalA(k).x, onFinalA(k).y, 28000, alt, tAlt), rwyA) >> :
            k \in {300, 560}, alt \in {0, 400, 560}, tAlt \in {0, 400} }
    \cup
    {   \* the same, flown by a departure, and crossing the approach the wrong way
        << setLanding(departed(AAL200, onFinalA(300).x, onFinalA(300).y, 28000, 400, 0), rwyA) >>,
        << setLanding(arrival(UAL100, onFinalA(300).x, onFinalA(300).y, 10000, 400, 0), rwyA) >>,
        \* low over the threshold with no landing clearance
        << arrival(UAL100, onFinalA(300).x, onFinalA(300).y, 28000, 0, 0) >>,
        \* cleared to land 13 and 6 miles out on the approach, and 6 miles out across it
        << setLanding(arrival(UAL100, onFinalA(13000).x, onFinalA(13000).y, 28000, 2000, 2000), rwyA) >>,
        << setLanding(arrival(UAL100, onFinalA(6000).x, onFinalA(6000).y, 28000, 2000, 2000), rwyA) >>,
        << setLanding(arrival(UAL100, onFinalA(6000).x, onFinalA(6000).y, 1000, 2000, 2000), rwyA) >>,
        \* far out, cleared to land
        << setLanding(arrival(UAL100, 20000, 1140, 27000, 2000, 2000), rwyA) >>,
        \* a departure waiting at the threshold of runway B
        << Aircraft(AAL200, rwyB.x, rwyB.y, rwyB.heading, 0, 0, FALSE) >> }
    \cup
    {   \* direct to ALFIX (bearing 090 from the origin) on any heading
        << setFix(arrival(UAL100, 0, 0, h, 6000, 6000), ALFIX, [x |-> 30000, y |-> 0]) >> :
            h \in {9000, 4000, 15500, 18000, 27000} }
    \cup
    {   \* under heading control, close to north
        << arrival(UAL100, 0, 0, h, 6000, 6000) >> : h \in {35970, 35985, 10} }

NavLines ==
    { join(<<UAL100, <<"C">>, <<"7", "2", "0">>>>),
      join(<<UAL100, <<"C">>, <<"3", "5", "0">>>>),
      join(<<UAL100, <<"C">>, ALFIX>>),
      join(<<UAL100, <<"L">>, <<"A">>>>),
      join(<<UAL100, <<"A">>>>),
      join(<<UAL100, <<"C">>, <<"-", "5">>>>),
      join(<<AAL200, <<"C">>, <<"5">>, <<"T">>>>) }

\* the frame intervals: half the cap, the cap, and a stalled frame (clamped to the cap)
Frames == {5, 10, 30}

MaxTicksNav == 3

MaxCmdsNav == 1

InitNav ==
    /\ airport = IGIA
    /\ aircrafts \in NavScenes
    /\ score = 0
    /\ spawnTimer = 1500
    /\ logs = << >>
    /\ updated = << >>
    /\ events = << >>
    /\ initPc = "done"
    /\ last = [op |-> "init", dt |-> 0, cmdStr |-> << >>]
    /\ spawnClock = [n |-> 0, ticks |-> 0, time |-> 0]
    /\ ticksLeft = MaxTicksNav
    /\ cmdsLeft = MaxCmdsNav

NextNav ==
    \/ \E elapsed \in Frames : loop(elapsed)
    \/ \E cmdStr \in NavLines : parseAndExecute(cmdStr)

\* the kinematics of one aircraft under frames and clearances
SpecNav == InitNav /\ [][NextNav]_vars

---------------------------------------------------------------------------
(* Lists of several aircraft for the separation scan and the removal       *)

SepScenes ==
    {   \* two close at one level and a third far away, in each array order
        << arrival(UAL100, 10000, 10000, 27000, 6000, 6000),
           arrival(UAL101, 11000, 10000, 27000, 6500, 6500),
           arrival(AAL200, -20000, -20000, 9000, 6000, 6000) >>,
        << arrival(AAL200, -20000, -20000, 9000, 6000, 6000),
           arrival(UAL100, 10000, 10000, 27000, 6000, 6000),
           arrival(UAL101, 11000, 10000, 27000, 6500, 6500) >>,
        \* three close to one another at one level
        << arrival(UAL100, 10000, 10000, 27000, 6000, 6000),
           arrival(UAL101, 11000, 10000, 27000, 6500, 6500),
           arrival(AAL200, 10500, 10500, 27000, 6200, 6200) >>,
        \* two close at one level, alone
        << arrival(UAL100, 10000, 10000, 27000, 6000, 6000),
           arrival(UAL101, 11000, 10000, 27000, 6500, 6500) >>,
        \* two converging head on, 3.1 miles apart
        << arrival(UAL100, 10000, 10000, 9000, 6000, 6000),
           arrival(UAL101, 13100, 10000, 27000, 6000, 6000) >>,
        \* two close in plan, 10.4 altitude units apart, one climbing away, one descending
        << arrival(UAL100, 10000, 10000, 27000, 6000, 5000),
           arrival(UAL101, 11000, 10000, 27000, 7040, 7040) >>,
        \* one overhead the field while another, cleared to land, is about to touch down
        << arrival(UAL100, onFinalA(900).x, onFinalA(900).y, 28000, 900, 900),
           setLanding(arrival(UAL101, onFinalA(300).x, onFinalA(300).y, 28000, 560, 0), rwyA) >>,
        \* the same with a departure landing (it stays in the list, on the ground)
        << arrival(UAL100, onFinalA(900).x, onFinalA(900).y, 28000, 900, 900),
           setLanding(departed(AAL200, onFinalA(300).x, onFinalA(300).y, 28000, 560, 0), rwyA) >>,
        \* a departure about to leave the airspace with an arrival beside it
        << departed(AAL200, 49950, 0, 9000, 6000, 6000),
           arrival(UAL100, 49000, 500, 27000, 6000, 6000) >>,
        \* an arrival that flew out of the airspace, and a departure climbing out
        << arrival(UAL100, 50500, 0, 9000, 6000, 6000),
           departed(AAL200, -20000, 0, 27000, 3000, 6000) >>,
        \* an arrival where the next arrival will be spawned
        << arrival(UAL101, -35000, 35000, 13500, 5500, 5500) >>,
        \* a departure waiting on the ground under an arrival
        << Aircraft(AAL200, rwyB.x, rwyB.y, rwyB.heading, 0, 0, FALSE),
           arrival(UAL100, rwyB.x + 500, rwyB.y, 27000, 500, 500) >> }

SepLines ==
    { join(<<UAL100, <<"C">>, <<"3", "0">>>>),
      join(<<AAL200, <<"C">>, <<"5">>, <<"T">>>>) }

MaxTicksSep == 3

MaxCmdsSep == 1

InitSep ==
    /\ airport = IGIA
    /\ aircrafts \in SepScenes
    /\ score = 0
    /\ spawnTimer \in {10, 1500}
    /\ logs = << >>
    /\ updated = << >>
    /\ events = << >>
    /\ initPc = "done"
    /\ last = [op |-> "init", dt |-> 0, cmdStr |-> << >>]
    /\ spawnClock = [n |-> 0, ticks |-> 0, time |-> 0]
    /\ ticksLeft = MaxTicksSep
    /\ cmdsLeft = MaxCmdsSep

NextSep ==
    \/ \E elapsed \in Frames : loop(elapsed)
    \/ \E cmdStr \in SepLines : parseAndExecute(cmdStr)

\* several aircraft under the tick: removal, spawn and separation scan
SpecSep == InitSep /\ [][NextSep]_vars

---------------------------------------------------------------------------
(* Lists and command lines for the command engine                          *)

\* a runway name no airport has
ZZ == <<"Z", "Z">>

CmdScenes ==
    {   \* an arrival high up under heading control, a departure waiting at a threshold
        [airport |-> IGIA,
         aircrafts |-> << arrival(UAL100, 10000, 5000, 27000, 6000, 6000),
                          Aircraft(AAL200, rwyB.x, rwyB.y, rwyB.heading, 0, 0, FALSE) >>],
        [airport |-> ORD,
         aircrafts |-> << arrival(UAL100, 10000, 5000, 27000, 6000, 6000),
                          Aircraft(AAL200, rwy36C.x, rwy36C.y, rwy36C.heading, 0, 0, FALSE) >>],
        \* an arrival landing on B, descending expedited, 30 units up
        [airport |-> IGIA,
         aircrafts |-> << setLanding(setAltitude(arrival(UAL100, 10000, 5000, 27000, 3000, 3000),
                                                 2000, TRUE), rwyB),
                          Aircraft(AAL200, rwyB.x, rwyB.y, rwyB.heading, 0, 0, FALSE) >>],
        \* a departure cleared to land on A and about to touch down
        [airport |-> IGIA,
         aircrafts |-> << setLanding(departed(AAL200, onFinalA(300).x, onFinalA(300).y,
                                              28000, 400, 0), rwyA) >>],
        \* on the approach of 36C (runway heading 360), 5 miles out, heading 010
        [airport |-> ORD,
         aircrafts |-> << setLanding(arrival(UAL100, 500, -1000, 1000, 2000, 2000), rwy36C) >>],
        \* two aircraft that drew the same callsign
        [airport |-> IGIA,
         aircrafts |-> << arrival(UAL100, 10000, 5000, 27000, 3000, 3000),
                          arrival(UAL100, -20000, 5000, 9000, 6000, 6000) >>] }
    \cup
    {   \* an arrival direct to ALFIX exactly at, and just above, the landing gate
        \* (30 units above the field elevation of 6.68)
        [airport |-> IGIA,
         aircrafts |-> << setFix(arrival(UAL100, 10000, 5000, 27000, alt, alt),
                                 ALFIX, [x |-> 30000, y |-> 0]),
                          Aircraft(AAL200, rwyB.x, rwyB.y, rwyB.heading, 0, 0, FALSE) >>] :
            alt \in {3668, 3669} }

CmdIds == {UAL100, AAL200}

\* the value tokens of the C instruction the runs use
CmdValues ==
    { <<"2", "7", "0">>, <<"0", "5", "0">>, <<"5">>, <<"9", "9">>, <<"1", "0", "0">>,
      <<"1", "2", "A">>, <<"-", "2", "0">>, <<"-", "5">>, OBK, ALFIX }

CmdLines ==
    { join(<<UAL100, <<"C">>, v>>) : v \in CmdValues }
    \cup
    { join(<<UAL100, <<"C">>, v, x>>) :
        v \in { <<"5">>, <<"2", "7", "0">>, ALFIX }, x \in { <<"X">>, <<"E", "X">> } }
    \cup
    { join(<<id>> \o toks) :
        id \in CmdIds,
        toks \in { << <<"T">> >>,
                   << <<"C">>, <<"5">>, <<"T">> >>,
                   << <<"T">>, <<"C">>, <<"5">> >>,
                   << <<"C">>, <<"5">>, <<"C">>, OBK >>,
                   << <<"L">>, <<"A">> >> } }
    \cup
    { join(<<UAL100>> \o toks) :
        toks \in { << <<"L">>, <<"B">> >>,
                   << <<"L">>, <<"3", "6", "C">> >>,
                   << <<"L">>, ZZ >>,
                   << <<"A">> >>,
                   << <<"W">> >>,
                   << <<"S">>, <<"2", "0", "0">>, <<"W">> >>,
                   << <<"C">> >>,
                   << <<"C">>, <<"5">>, <<"C">> >>,
                   << <<"A">>, <<"L">> >>,
                   << <<"C">>, ALFIX, <<"L">>, <<"A">> >>,
                   << <<"L">>, <<"A">>, <<"C">>, ALFIX >>,
                   << <<"C">>, <<"2", "0">>, <<"L">>, <<"A">> >>,
                   << <<"C">>, <<"2", "0">>, <<"X">>, <<"L">>, <<"A">> >>,
                   << <<"C">>, <<"2", "0">>, <<"E", "X">>, <<"R">>, <<"T">> >>,
                   << <<"C">>, <<"2", "7", "0">>, <<"R">>, <<"W">> >>,
                   << <<"C">>, <<"2", "0">>, <<"L">> >>,
                   << <<"C">>, <<"2", "0">>, <<"L">>, <<"X">> >>,
                   << <<"C">>, <<"2", "0">>, <<"X">>, <<"C">>, <<"2", "7", "0">>, <<"X">> >>,
                   << <<"C">>, <<"2", "0">>, <<"X">>, <<"C">>, ALFIX, <<"E", "X">> >>,
                   << <<"C">>, <<"2", "0">>, <<"X">>, <<"C">>, <<"3", "0">> >>,
                   << <<"C">>, <<"2", "0">>, <<"C">>, <<"3", "0">>, <<"E", "X">> >>,
                   << <<"C">>, ALFIX, <<"A">>, <<"L">>, <<"A">>, <<"C">>, <<"0", "9", "0">> >> } }
    \cup
    {   \* as typed: lower case, padded; an id alone; an id no aircraft has
        <<" ", "u", "a", "l", "1", "0", "0", " ", " ", "c", "\t", "0", "5", "0", " ">>,
        UAL100,
        join(<<UAL101, <<"T">>>>) }

MaxTicksCmd == 1

MaxCmdsCmd == 1

InitCmd ==
    /\ \E sc \in CmdScenes : airport = sc.airport /\ aircrafts = sc.aircrafts
    /\ score = 0
    /\ spawnTimer = 1500
    /\ logs = << >>
    /\ updated = << >>
    /\ events = << >>
    /\ initPc = "done"
    /\ last = [op |-> "init", dt |-> 0, cmdStr |-> << >>]
    /\ spawnClock = [n |-> 0, ticks |-> 0, time |-> 0]
    /\ ticksLeft = MaxTicksCmd
    /\ cmdsLeft = MaxCmdsCmd

NextCmd ==
    \/ \E elapsed \in Frames : loop(elapsed)
    \/ \E cmdStr \in CmdLines : parseAndExecute(cmdStr)

\* command lines between frames
SpecCmd == InitCmd /\ [][NextCmd]_vars

---------------------------------------------------------------------------
(* The engine from its construction: init loading while the frames run     *)

\* new Airport() without data: "Starts empty/loading"
emptyAirport == [elevation |-> 0, runways |-> << >>, fixes |-> << >>]

\* init: the airport file arrived; this.airport = new Airport(airportData)
initAirportLoaded(data) ==
    /\ initPc = "fetchAirport"
    /\ airport' = data
    /\ logs' = << LogEntry("Loaded airport", << >>, << >>, 0, FALSE) >>
    /\ events' = << >>
    /\ initPc' = "fetchTypes"
    /\ last' = [op |-> "init", dt |-> 0, cmdStr |-> << >>]
    /\ UNCHANGED <<aircrafts, score, spawnTimer, updated, ticksLeft, cmdsLeft, spawnClock>>

\* init: the airport file is not there (response not ok, or the fetch threw)
initAirportUnavailable ==
    /\ initPc = "fetchAirport"
    /\ logs' = << LogEntry("Airport not available", << >>, << >>, 0, FALSE),
                  LogEntry("select a different airport", << >>, << >>, 0, FALSE) >>
    /\ events' = << >>
    /\ initPc' = "failed"
    /\ last' = [op |-> "init", dt |-> 0, cmdStr |-> << >>]
    /\ UNCHANGED <<airport, aircrafts, score, spawnTimer, updated, ticksLeft, cmdsLeft,
                   spawnClock>>

\* init: the aircraft specs answered; "Start Traffic": spawnAircraft() and two
\* spawnDeparture()
initStartTraffic ==
    /\ initPc = "fetchTypes"
    /\ \E rnd \in Draws, n2 \in {200}, n3 \in {200, 300} :
          LET new == spawnAircraft(airport, rnd)
                     \o spawnDeparture(airport, n2, rnd.rwyDraw)
                     \o spawnDeparture(airport, n3, 1)
          IN  /\ aircrafts' = aircrafts \o new
              /\ events' = addedEvents(new)
    /\ logs' = << LogEntry("Loaded aircraft specs", << >>, << >>, 0, FALSE) >>
    /\ initPc' = "done"
    /\ last' = [op |-> "init", dt |-> 0, cmdStr |-> << >>]
    /\ UNCHANGED <<airport, score, spawnTimer, updated, ticksLeft, cmdsLeft, spawnClock>>

LoadLines ==
    { join(<<UAL100, <<"C">>, ALFIX>>),
      join(<<UAL100, <<"L">>, <<"A">>>>) }

MaxTicksLoad == 22

MaxCmdsLoad == 1

\* the state the GameContainer effect leaves: the engine constructed, init called
\* and waiting for the airport file, the first animation frame requested
InitLoad ==
    /\ airport = emptyAirport
    /\ aircrafts = << >>
    /\ score = 0
    /\ spawnTimer = 200
    /\ logs = << >>
    /\ updated = << >>
    /\ events = << >>
    /\ initPc = "fetchAirport"
    /\ last = [op |-> "init", dt |-> 0, cmdStr |-> << >>]
    /\ spawnClock = [n |-> 0, ticks |-> 0, time |-> 0]
    /\ ticksLeft = MaxTicksLoad
    /\ cmdsLeft = MaxCmdsLoad

NextLoad ==
    \/ \E elapsed \in {10, 30} : loop(elapsed)
    \/ \E cmdStr \in LoadLines : parseAndExecute(cmdStr)
    \/ \E data \in {IGIA, ORD} : initAirportLoaded(data)
    \/ initAirportUnavailable
    \/ initStartTraffic

\* the frames and the command input running while init loads
SpecLoad == InitLoad /\ [][NextLoad]_vars

---------------------------------------------------------------------------
(* The methods of one aircraft called directly                             *)

\* a call of aircraft.takeoff() on the i-th aircraft of the list
takeoffCall(i) ==
    /\ cmdsLeft > 0
    /\ i \in 1..Len(aircrafts)
    /\ aircrafts' = [aircrafts EXCEPT ![i] = takeoff(@)]
    /\ logs' = << >>
    /\ events' = << >>
    /\ last' = [op |-> "takeoff", dt |-> 0, cmdStr |-> aircrafts[i].id]
    /\ cmdsLeft' = cmdsLeft - 1
    /\ UNCHANGED <<airport, score, spawnTimer, updated, initPc, ticksLeft, spawnClock>>

\* one-aircraft lists: a departure at the gate with and without a clearance, an arrival
\* in flight, a departure climbing out, an arrival that has landed
TakeoffScenes ==
    {   << setAltitude(Aircraft(AAL200, -1500, 1140, h, 0, 0, FALSE), t, e) >> :
            h \in {10000, 28000}, t \in {-500, 0, 500, 3000}, e \in BOOLEAN }
    \cup
    {   << arrival(UAL100, 10000, 10000, h, 2000, t) >> :
            h \in {0, 9000, 18000, 27000}, t \in {0, 2000} }
    \cup
    {   << departed(AAL200, 3000, 3000, h, 1000, 5000) >> : h \in {9000, 27000} }
    \cup
    {   << [ touchdown(setLanding(arrival(UAL100, onFinalA(300).x, onFinalA(300).y,
                                          28000, 400, 0), rwyA))
                EXCEPT !.altitude = 0, !.targetAltitude = t] >> : t \in {0, 500} }

TakeoffLines ==
    { join(<< id, <<"C">>, <<"5">> >>) : id \in {UAL100, AAL200} }
    \cup { join(<< id, <<"T">> >>) : id \in {UAL100, AAL200} }
    \cup { join(<< AAL200, <<"C">>, <<"0", "9", "0">> >>),
           join(<< AAL200, <<"C">>, ALFIX >>),
           join(<< AAL200, <<"L">>, <<"A">> >>) }

MaxTicksTakeoff == 2
MaxCmdsTakeoff == 2

InitTakeoff ==
    /\ airport = IGIA
    /\ aircrafts \in TakeoffScenes
    /\ score = 0
    /\ spawnTimer = 1500
    /\ logs = << >>
    /\ updated = << >>
    /\ events = << >>
    /\ initPc = "done"
    /\ last = [op |-> "init", dt |-> 0, cmdStr |-> << >>]
    /\ spawnClock = [n |-> 0, ticks |-> 0, time |-> 0]
    /\ ticksLeft = MaxTicksTakeoff
    /\ cmdsLeft = MaxCmdsTakeoff

NextTakeoff ==
    \/ \E elapsed \in Frames : loop(elapsed)
    \/ \E cmdStr \in TakeoffLines : parseAndExecute(cmdStr)
    \/ \E i \in 1..Len(aircrafts) : takeoffCall(i)

\* one aircraft whose takeoff() is called in any state it can be in
SpecTakeoff == InitTakeoff /\ [][NextTakeoff]_vars

---------------------------------------------------------------------------
(* The spawn timer over the frames of a long run                           *)

SpawnLines == { join(<<UAL100, <<"C">>, <<"3", "0">>>>) }

MaxTicksSpawn == 221
MaxCmdsSpawn == 1

\* the engine as constructed, its airport file not there: no traffic but the timer's
InitSpawn ==
    /\ airport = emptyAirport
    /\ aircrafts = << >>
    /\ score = 0
    /\ spawnTimer = 200
    /\ logs = << >>
    /\ updated = << >>
    /\ events = << >>
    /\ initPc = "failed"
    /\ last = [op |-> "init", dt |-> 0, cmdStr |-> << >>]
    /\ spawnClock = [n |-> 0, ticks |-> 0, time |-> 0]
    /\ ticksLeft = MaxTicksSpawn
    /\ cmdsLeft = MaxCmdsSpawn

NextSpawn ==
    \/ \E elapsed \in {10, 30} : loop(elapsed)
    \/ \E cmdStr \in SpawnLines : parseAndExecute(cmdStr)

\* the spawn timer counting down over more than a hundred frames
SpecSpawn == InitSpawn /\ [][NextSpawn]_vars

---------------------------------------------------------------------------
(* Properties                                                              *)

\* the angle between two headings, as an arc, in hundredths of a degree
ArcDist(a, b) ==
    LET d == (a - b) % 36000
    IN  Min(d, 36000 - d)

\* aircraft a and b are both airborne and within 3 miles and 10 altitude units
InConflict(a, b) ==
    /\ ~a.isOnGround
    /\ ~b.isOnGround
    /\ HypotLt(a.x - b.x, a.y - b.y, 3000)
    /\ Abs(a.altitude - b.altitude) < 1000

\* a departure exactly as spawnDeparture creates it
FreshDeparture(ac) ==
    /\ ~ac.isArrival /\ ac.isOnGround /\ ~ac.isTakingOff
    /\ ac.altitude = 0 /\ ac.speed = 0 /\ ac.history = << >>

\* C1: an update grounds an airborne aircraft only when it is in landing-intercept
\* mode and, at the navigation step (position, altitude and targetAltitude as the
\* update found them), dist < 0.5, altitude < 5 and targetAltitude = 0 all hold;
\* removal, spawn and scan ground no aircraft of the list, and no command does.
C1_TouchdownOnly ==
    [][ /\ last'.op = "loop" =>
            /\ Len(updated') = Len(aircrafts)
            /\ \A i \in 1..Len(aircrafts) :
                  (~aircrafts[i].isOnGround /\ updated'[i].isOnGround) =>
                      /\ aircrafts[i].navFix = Null
                      /\ aircrafts[i].landingRunway # Null
                      /\ HypotLt(aircrafts[i].landingRunway[1].x - aircrafts[i].x,
                                 aircrafts[i].landingRunway[1].y - aircrafts[i].y, 500)
                      /\ aircrafts[i].altitude < 500
                      /\ aircrafts[i].targetAltitude = 0
            /\ \A j \in 1..Len(aircrafts') :
                  aircrafts'[j].isOnGround =>
                      \/ FreshDeparture(aircrafts'[j])
                      \/ \E i \in 1..Len(updated') :
                            /\ updated'[i].isOnGround
                            /\ [aircrafts'[j] EXCEPT !.violation = updated'[i].violation]
                                 = updated'[i]
        /\ last'.op = "cmd" =>
            /\ Len(aircrafts') = Len(aircrafts)
            /\ \A i \in 1..Len(aircrafts) :
                  aircrafts'[i].isOnGround => aircrafts[i].isOnGround
      ]_vars

\* C1 witness: a tick in which an arrival touched down (an arrival is on the ground
\* in no other way)
C1_Witness ==
    /\ last.op = "loop"
    /\ \E i \in 1..Len(updated) :
          updated[i].isArrival /\ updated[i].isOnGround /\ updated[i].speed = 0

\* C4: one update changes a heading in [0, 360) by at most rate_turn * dt of arc and
\* leaves it in [0, 360), whatever targetHeading commands and navigation have set.
C4_TurnBound ==
    [][ last'.op = "loop" =>
          \A i \in 1..Len(aircrafts) :
              (aircrafts[i].heading >= 0 /\ aircrafts[i].heading < 36000) =>
                  /\ updated'[i].heading >= 0
                  /\ updated'[i].heading < 36000
                  /\ ArcDist(aircrafts[i].heading, updated'[i].heading) <= rate_turn * last'.dt
      ]_vars

\* position p1 is no farther from the fix than position p0
NotFarther(fix, p0, p1) ==
    LET dx0 == fix.x - p0.x
        dy0 == fix.y - p0.y
        dx1 == fix.x - p1.x
        dy1 == fix.y - p1.y
    IN  (dx1 - dx0) * (dx1 + dx0) + (dy1 - dy0) * (dy1 + dy0) <= 0

\* the aircraft is airborne, moving, direct to a fix it is still a mile or more from
HomingOnFix(ac) ==
    /\ ac.navFix # Null
    /\ ~ac.isOnGround
    /\ ac.speed > 0
    /\ ~HypotLt(ac.navFix[1].x - ac.x, ac.navFix[1].y - ac.y, 1000)

\* C5 as claimed: whatever the heading, no update of an aircraft homing on a fix
\* increases its distance to the fix.
C5_AnyHeading ==
    [][ last'.op = "loop" =>
          \A i \in 1..Len(aircrafts) :
              HomingOnFix(aircrafts[i]) =>
                  NotFarther(aircrafts[i].navFix[1], aircrafts[i], updated'[i])
      ]_vars

\* C5 amended: an update of an aircraft homing on a fix does not increase its
\* distance to the fix when the heading the update turned it to is within 60 degrees
\* of the bearing to the fix.
C5_WithinCone ==
    [][ last'.op = "loop" =>
          \A i \in 1..Len(aircrafts) :
              ( /\ HomingOnFix(aircrafts[i])
                /\ ArcDist(updated'[i].heading, updated'[i].targetHeading) <= 6000 ) =>
                  NotFarther(aircrafts[i].navFix[1], aircrafts[i], updated'[i])
      ]_vars

\* C5 witness: a tick moved an aircraft that homes on a fix and points within the cone
C5_Witness ==
    /\ last.op = "loop"
    /\ \E i \in 1..Len(updated) :
          /\ HomingOnFix(updated[i])
          /\ ArcDist(updated[i].heading, updated[i].targetHeading) <= 6000
          /\ Len(updated[i].history) > 0
          /\ updated[i].history[1] # [x |-> 0, y |-> 0]

\* C2: after the scan of a tick, every two aircraft in conflict are both flagged.
C2_BothFlagged ==
    last.op = "loop" =>
        \A i, j \in 1..Len(aircrafts) :
            (i # j /\ InConflict(aircrafts[i], aircrafts[j])) =>
                (aircrafts[i].violation /\ aircrafts[j].violation)

\* C3: after the scan of a tick, an aircraft is flagged only if another live
\* airborne aircraft is in conflict with it in that tick.
C3_FlagIsFresh ==
    last.op = "loop" =>
        \A i \in 1..Len(aircrafts) :
            aircrafts[i].violation =>
                \E j \in 1..Len(aircrafts) :
                    j # i /\ InConflict(aircrafts[i], aircrafts[j])


\* the messages of the log, in order
Msgs(log) == [k \in 1..Len(log) |-> log[k].msg]

\* the airport has a fix of this name
KnownFix(name) == \E k \in 1..Len(airport.fixes) : airport.fixes[k].name = name

\* what the value tokens of the runs denote: not a number (nan), or the number num
C6Values ==
    { [tok |-> <<"2", "7", "0">>, nan |-> FALSE, num |-> 270],
      [tok |-> <<"0", "5", "0">>, nan |-> FALSE, num |-> 50],
      [tok |-> <<"5">>,           nan |-> FALSE, num |-> 5],
      [tok |-> <<"9", "9">>,      nan |-> FALSE, num |-> 99],
      [tok |-> <<"1", "0", "0">>, nan |-> FALSE, num |-> 100],
      [tok |-> <<"1", "2", "A">>, nan |-> FALSE, num |-> 12],
      [tok |-> <<"-", "2", "0">>, nan |-> FALSE, num |-> -20],
      [tok |-> <<"-", "5">>,      nan |-> FALSE, num |-> -5],
      [tok |-> OBK,               nan |-> TRUE,  num |-> 0],
      [tok |-> ALFIX,             nan |-> TRUE,  num |-> 0] }

\* C6: 'ID C v' with v a number is a heading (targetHeading = v, fix and landing mode
\* cleared, altitude clearance untouched) exactly when v >= 100 or the token has 3
\* characters, and otherwise an altitude clearance carrying the expedite marker;
\* with v not a number it is a fix name.
C6_HeadingOrAltitude ==
    [][ last'.op = "cmd" =>
          \A id \in CmdIds, v \in C6Values, x \in { << >>, << <<"X">> >>, << <<"E", "X">> >> } :
              LET k == getAircraft(aircrafts, id)
              IN  (last'.cmdStr = join(<<id, <<"C">>, v.tok>> \o x) /\ k # 0) =>
                      IF v.nan
                      THEN IF KnownFix(v.tok)
                           THEN /\ aircrafts'[k].navFix # Null
                                /\ aircrafts'[k].navFix[1].name = v.tok
                                /\ aircrafts'[k].targetHeading = aircrafts[k].targetHeading
                                /\ aircrafts'[k].targetAltitude = aircrafts[k].targetAltitude
                           ELSE /\ aircrafts' = aircrafts
                                /\ Msgs(logs') = <<">", "Unknown Fix">>
                      ELSE IF v.num >= 100 \/ Len(v.tok) = 3
                           THEN aircrafts'[k] =
                                   [aircrafts[k] EXCEPT !.targetHeading = v.num * 100,
                                                        !.navFix = Null,
                                                        !.landingRunway = Null]
                           ELSE aircrafts'[k] =
                                   [aircrafts[k] EXCEPT !.targetAltitude = v.num * 100,
                                                        !.expedite = (x # << >>)]
      ]_vars

\* C6 witness: 'UAL100 C 050' was taken as heading 50 and the altitude clearance of 60 stands
C6_Witness ==
    /\ last.cmdStr = join(<<UAL100, <<"C">>, <<"0", "5", "0">>>>)
    /\ Len(aircrafts) >= 1
    /\ aircrafts[1].targetHeading = 5000
    /\ aircrafts[1].targetAltitude = 6000

\* C7: a chain is applied left to right, each instruction on what the previous left:
\* 'ID C 5 C OBK' sets altitude 5 and then direct OBK (or logs Unknown Fix and keeps the
\* altitude); on a grounded aircraft with targetAltitude 0, 'ID C 5 T' takes off and
\* 'ID T C 5' is refused and ends grounded with targetAltitude 5.
C7_ChainInOrder ==
    [][ last'.op = "cmd" =>
          \A id \in CmdIds :
              LET k == getAircraft(aircrafts, id)
              IN  k # 0 =>
                  /\ last'.cmdStr = join(<<id, <<"C">>, <<"5">>, <<"C">>, OBK>>) =>
                        /\ aircrafts'[k].targetAltitude = 500
                        /\ IF KnownFix(OBK)
                           THEN /\ aircrafts'[k].navFix # Null
                                /\ aircrafts'[k].navFix[1].name = OBK
                                /\ Msgs(logs') = <<">", "altitude", "cleared to">>
                           ELSE /\ aircrafts'[k].navFix = aircrafts[k].navFix
                                /\ Msgs(logs') = <<">", "altitude", "Unknown Fix">>
                                /\ logs'[3].text = OBK
                  /\ ( /\ last'.cmdStr = join(<<id, <<"C">>, <<"5">>, <<"T">>>>)
                       /\ aircrafts[k].isOnGround
                       /\ aircrafts[k].targetAltitude = 0 ) =>
                        /\ ~aircrafts'[k].isOnGround
                        /\ aircrafts'[k].isTakingOff
                        /\ aircrafts'[k].targetAltitude = 500
                        /\ Msgs(logs') = <<">", "altitude", "cleared for takeoff">>
                  /\ ( /\ last'.cmdStr = join(<<id, <<"T">>, <<"C">>, <<"5">>>>)
                       /\ aircrafts[k].isOnGround
                       /\ aircrafts[k].targetAltitude = 0 ) =>
                        /\ aircrafts'[k].isOnGround
                        /\ aircrafts'[k].isTakingOff = aircrafts[k].isTakingOff
                        /\ aircrafts'[k].targetAltitude = 500
                        /\ Msgs(logs') = <<">", "needs altitude clearance first", "altitude">>
      ]_vars

\* C7 witness: 'AAL200 T C 5' left the departure on the ground with targetAltitude 5
C7_Witness ==
    /\ last.cmdStr = join(<<AAL200, <<"T">>, <<"C">>, <<"5">>>>)
    /\ \E k \in 1..Len(aircrafts) :
          /\ aircrafts[k].id = AAL200
          /\ aircrafts[k].isOnGround
          /\ aircrafts[k].targetAltitude = 500
    /\ Msgs(logs) = <<">", "needs altitude clearance first", "altitude">>

\* C8: 'ID T' on a grounded aircraft with targetAltitude 0 logs the refusal and leaves
\* the aircraft on the ground, isTakingOff false, nothing changed; on an airborne
\* aircraft it logs 'already airborne' and changes nothing.
C8_TakeoffRefused ==
    [][ last'.op = "cmd" =>
          \A id \in CmdIds :
              LET k == getAircraft(aircrafts, id)
              IN  (last'.cmdStr = join(<<id, <<"T">>>>) /\ k # 0) =>
                      /\ (aircrafts[k].isOnGround /\ aircrafts[k].targetAltitude = 0) =>
                            /\ Msgs(logs') = <<">", "needs altitude clearance first">>
                            /\ aircrafts' = aircrafts
                            /\ aircrafts'[k].isOnGround
                            /\ ~aircrafts'[k].isTakingOff
                      /\ ~aircrafts[k].isOnGround =>
                            /\ Msgs(logs') = <<">", "already airborne">>
                            /\ aircrafts' = aircrafts
      ]_vars

\* the airport has a runway of this name
KnownRunway(name) == \E k \in 1..Len(airport.runways) : airport.runways[k].name = name

C10_OneNavMode ==
    /\ \A i \in 1..Len(aircrafts) :
          /\ ~(aircrafts[i].navFix # Null /\ aircrafts[i].landingRunway # Null)
          /\ ~aircrafts[i].holding
    /\ \A id \in CmdIds :
          LET k == getAircraft(aircrafts, id)
          IN  k # 0 =>
              /\ last.cmdStr = join(<<id, <<"C">>, <<"2", "7", "0">>>>) =>
                    (aircrafts[k].navFix = Null /\ aircrafts[k].landingRunway = Null)
              /\ (last.cmdStr = join(<<id, <<"C">>, ALFIX>>) /\ KnownFix(ALFIX)) =>
                    /\ aircrafts[k].navFix # Null
                    /\ aircrafts[k].navFix[1].name = ALFIX
                    /\ aircrafts[k].landingRunway = Null
              /\ ( /\ last.cmdStr = join(<<id, <<"L">>, <<"A">>>>)
                   /\ Msgs(logs) = <<">", "cleared to land">> ) =>
                    /\ aircrafts[k].landingRunway # Null
                    /\ aircrafts[k].landingRunway[1].name = <<"A">>
                    /\ aircrafts[k].navFix = Null
              /\ ( /\ last.cmdStr = join(<<id, <<"L">>, <<"A">>, <<"C">>, ALFIX>>)
                   /\ KnownFix(ALFIX) ) =>
                    /\ aircrafts[k].navFix # Null
                    /\ aircrafts[k].navFix[1].name = ALFIX
                    /\ aircrafts[k].landingRunway = Null

\* C10 witness: in one line the aircraft was cleared to land on A and then sent direct
\* to ALFIX, which is the one mode it is left in
C10_Witness ==
    /\ last.cmdStr = join(<<UAL100, <<"L">>, <<"A">>, <<"C">>, ALFIX>>)
    /\ Msgs(logs) = <<">", "cleared to land", "cleared to">>
    /\ aircrafts[1].navFix # Null
    /\ aircrafts[1].landingRunway = Null


\* C11: a line with an unknown id, and an instruction naming an unknown fix or an
\* unknown runway, each log one line saying so and leave every aircraft, the score
\* and the spawn timer of the frame loop as they were.
C11_ErrorsChangeNothing ==
    [][ last'.op = "cmd" =>
          /\ ( /\ last'.cmdStr = join(<<UAL101, <<"T">>>>)
               /\ getAircraft(aircrafts, UAL101) = 0 ) =>
                 /\ Msgs(logs') = << "Unknown ID" >>
                 /\ logs'[1].id = UAL101
                 /\ aircrafts' = aircrafts
                 /\ score' = score
                 /\ spawnTimer' = spawnTimer
          /\ ( /\ last'.cmdStr = join(<<UAL100, <<"C">>, OBK>>)
               /\ getAircraft(aircrafts, UAL100) # 0
               /\ ~KnownFix(OBK) ) =>
                 /\ Msgs(logs') = << ">", "Unknown Fix" >>
                 /\ logs'[2].text = OBK
                 /\ aircrafts' = aircrafts
                 /\ score' = score
                 /\ spawnTimer' = spawnTimer
          /\ ( /\ last'.cmdStr = join(<<UAL100, <<"L">>, ZZ>>)
               /\ getAircraft(aircrafts, UAL100) # 0 ) =>
                 /\ Msgs(logs') = << ">", "Unknown Runway" >>
                 /\ logs'[2].text = ZZ
                 /\ aircrafts' = aircrafts
                 /\ score' = score
                 /\ spawnTimer' = spawnTimer
      ]_vars

\* C11 witness: an instruction named a runway the airport has not
C11_Witness ==
    /\ last.cmdStr = join(<<UAL100, <<"L">>, ZZ>>)
    /\ Msgs(logs) = << ">", "Unknown Runway" >>
    /\ logs[2].text = ZZ
    /\ ticksLeft > 0


\* an arrival stopped on the ground, or a departure more than 50 from the centre
Terminal(ac) ==
    IF ac.isArrival
    THEN ac.isOnGround /\ ac.speed < 1000
    ELSE HypotGtFar(ac.x, ac.y, 50000)

\* the ids the removal notification was fired with, in order
RemovedIds(ev) ==
    LET rem == SelectSeq(ev, LAMBDA e : e.cb = "onAircraftRemoved")
    IN  [k \in 1..Len(rem) |-> rem[k].id]

\* the elements of seq at the indices of set idx, in order
RECURSIVE Pick(_, _, _)
Pick(seq, idx, k) ==
    IF k > Len(seq) THEN << >>
    ELSE (IF k \in idx THEN << seq[k] >> ELSE << >>) \o Pick(seq, idx, k + 1)

\* C12: a tick removes exactly the aircraft that, after its updates, are arrivals
\* stopped on the ground or departures farther than 50 from the centre; each removal
\* adds 50 to the score and fires the removal notification once; the others stay, in
\* order; no command line changes the list, the score, or fires a notification.
C12_RemovalRule ==
    [][ /\ last'.op = "loop" =>
            LET gone == { i \in 1..Len(updated') : Terminal(updated'[i]) }
                stay == Pick(updated', (1..Len(updated')) \ gone, 1)
                n    == Len(stay)
            IN  /\ Len(aircrafts') \in {n, n + 1}
                /\ \A k \in 1..n :
                      [aircrafts'[k] EXCEPT !.violation = stay[k].violation] = stay[k]
                /\ RemovedIds(events') =
                      [k \in 1..Cardinality(gone) |-> Pick(updated', gone, 1)[k].id]
                /\ score' <= score + 500 * Cardinality(gone)
                /\ (\A i, j \in 1..Len(aircrafts') :
                        i # j => ~InConflict(aircrafts'[i], aircrafts'[j]))
                      => score' = score + 500 * Cardinality(gone)
        /\ last'.op = "cmd" =>
            /\ [k \in 1..Len(aircrafts') |-> aircrafts'[k].id]
                  = [k \in 1..Len(aircrafts) |-> aircrafts[k].id]
            /\ score' = score
            /\ events' = << >>
      ]_vars

\* C12 witness: a tick removed a departure that left the airspace, scored it, and kept
\* the arrival beside it
C12_Witness ==
    /\ last.op = "loop"
    /\ RemovedIds(events) = << AAL200 >>
    /\ score >= 490
    /\ \E k \in 1..Len(aircrafts) : aircrafts[k].id = UAL100


\* the number of pairs of the list that are in conflict
ConflictPairs(list) ==
    Cardinality({ p \in (1..Len(list)) \X (1..Len(list)) :
                    p[1] < p[2] /\ InConflict(list[p[1]], list[p[2]]) })

\* C13: a tick updates every aircraft of the list as the last handler left it, then
\* removes, then counts down the spawn timer and spawns, then scans: the spawned
\* aircraft is appended after the survivors as constructed (not updated, not removed),
\* the scan penalises exactly the conflicting pairs of survivors and spawned aircraft,
\* and with one pair in the list flags it as that pair stands after the tick.
C13_PhaseOrder ==
    [][ last'.op = "loop" =>
          LET gone == { i \in 1..Len(updated') : Terminal(updated'[i]) }
              n    == Len(updated') - Cardinality(gone)
              due  == spawnTimer - last'.dt <= 0
          IN  /\ updated' = [k \in 1..Len(aircrafts) |-> update(aircrafts[k], last'.dt)]
              /\ Len(aircrafts') \in {n, n + 1}
              /\ Len(aircrafts') = n + 1 => due
              /\ due => /\ Len(aircrafts') = n + 1
                        /\ spawnTimer' >= 1000 /\ spawnTimer' < 2000
              /\ ~due => spawnTimer' = spawnTimer - last'.dt
              /\ Len(aircrafts') = n + 1 =>
                    LET ac == aircrafts'[n + 1]
                    IN  /\ [ac EXCEPT !.violation = FALSE]
                            = Aircraft(ac.id, ac.x, ac.y, ac.heading, ac.altitude, ac.speed,
                                       ac.isArrival)
                        /\ events'[Len(events')] =
                              [cb |-> "onAircraftAdded", id |-> ac.id, score |-> 0]
              /\ score' = score + 500 * Cardinality(gone) - ConflictPairs(aircrafts')
              /\ Len(aircrafts') = 2 =>
                    \/ aircrafts'[1].isOnGround
                    \/ aircrafts'[2].isOnGround
                    \/ /\ aircrafts'[1].violation = InConflict(aircrafts'[1], aircrafts'[2])
                       /\ aircrafts'[2].violation = InConflict(aircrafts'[1], aircrafts'[2])
      ]_vars

\* C13 witness: the aircraft spawned in a tick was scanned in that tick against the
\* only survivor and both were flagged and penalised
C13_Witness ==
    /\ last.op = "loop"
    /\ Len(aircrafts) = 2
    /\ Len(events) > 0
    /\ events[Len(events)].cb = "onAircraftAdded"
    /\ events[Len(events)].id = aircrafts[2].id
    /\ aircrafts[1].violation
    /\ aircrafts[2].violation
    /\ aircrafts[2].history = << >>


\* C14: in every state no aircraft is both on the ground and taking off.
C14_GroundedNotTakingOff ==
    \A i \in 1..Len(aircrafts) : ~(aircrafts[i].isOnGround /\ aircrafts[i].isTakingOff)


\* C15 as claimed: no command line changes x, y, heading, altitude or speed of any
\* aircraft.
C15_OnlyTargets ==
    [][ last'.op = "cmd" =>
          /\ Len(aircrafts') = Len(aircrafts)
          /\ \A k \in 1..Len(aircrafts) :
                /\ aircrafts'[k].x = aircrafts[k].x
                /\ aircrafts'[k].y = aircrafts[k].y
                /\ aircrafts'[k].heading = aircrafts[k].heading
                /\ aircrafts'[k].altitude = aircrafts[k].altitude
                /\ aircrafts'[k].speed = aircrafts[k].speed
      ]_vars

\* C15 amended: no command line changes x, y, heading or altitude of any aircraft,
\* and none changes speed except a granted takeoff, which puts the aircraft that
\* leaves the ground at speed_landing.
C15_OnlyTargetsButTakeoff ==
    [][ last'.op = "cmd" =>
          /\ Len(aircrafts') = Len(aircrafts)
          /\ \A k \in 1..Len(aircrafts) :
                /\ aircrafts'[k].x = aircrafts[k].x
                /\ aircrafts'[k].y = aircrafts[k].y
                /\ aircrafts'[k].heading = aircrafts[k].heading
                /\ aircrafts'[k].altitude = aircrafts[k].altitude
                /\ IF aircrafts[k].isOnGround /\ ~aircrafts'[k].isOnGround
                   THEN /\ aircrafts'[k].speed = 14000
                        /\ aircrafts'[k].targetAltitude > 0
                        /\ \E m \in 1..Len(logs') : logs'[m].msg = "cleared for takeoff"
                   ELSE aircrafts'[k].speed = aircrafts[k].speed
      ]_vars

\* C15 witness: 'AAL200 C 5 T' put the departure in the air where it stood, at
\* speed_landing, altitude 0 and the runway heading
C15_Witness ==
    /\ last.cmdStr = join(<<AAL200, <<"C">>, <<"5">>, <<"T">>>>)
    /\ \E k \in 1..Len(aircrafts) :
          /\ aircrafts[k].id = AAL200
          /\ ~aircrafts[k].isOnGround
          /\ aircrafts[k].speed = 14000
          /\ aircrafts[k].altitude = 0
          /\ aircrafts[k].targetAltitude = 500


\* C16: the aircraft of the list have pairwise distinct ids.
C16_DistinctIds ==
    \A i, j \in 1..Len(aircrafts) : i # j => aircrafts[i].id # aircrafts[j].id


\* C17: while init is loading the airport no tick has run and no aircraft exists.
C17_NothingWhileLoading ==
    initPc = "fetchAirport" => (last.op # "loop" /\ Len(aircrafts) = 0)


\* C18: in every state every aircraft has altitude >= 0 and speed >= 0.
C18_NonNegative ==
    \A i \in 1..Len(aircrafts) : aircrafts[i].altitude >= 0 /\ aircrafts[i].speed >= 0


\* the instruction a log message belongs to
KindOf(msg) ==
    CASE msg \in {"heading", "altitude", "cleared to", "Unknown Fix"} -> "C"
      [] msg \in {"cleared for takeoff", "needs altitude clearance first",
                  "already airborne"} -> "T"
      [] msg \in {"cleared to land", "too high", "Unknown Runway"} -> "L"
      [] msg = "approach aborted" -> "A"
      [] msg = "hold position" -> "W"
      [] OTHER -> "none"

\* an instruction of a line: its letter and its argument
Ins(kind, text) == [kind |-> kind, text |-> text]

\* command lines to UAL100 as typed, the echo and the instructions each holds
C19Cases ==
    { [line |-> join(<<UAL100, <<"C">>, <<"5">>, <<"C">>, OBK>>),
       echo |-> join(<<UAL100, <<"C">>, <<"5">>, <<"C">>, OBK>>),
       ins  |-> << Ins("C", <<"5">>), Ins("C", OBK) >>],
      [line |-> join(<<UAL100, <<"C">>, <<"2", "7", "0">>, <<"E", "X">>>>),
       echo |-> join(<<UAL100, <<"C">>, <<"2", "7", "0">>, <<"E", "X">>>>),
       ins  |-> << Ins("C", <<"2", "7", "0">>) >>],
      [line |-> join(<<UAL100, <<"C">>, ALFIX, <<"L">>, <<"A">>>>),
       echo |-> join(<<UAL100, <<"C">>, ALFIX, <<"L">>, <<"A">>>>),
       ins  |-> << Ins("C", ALFIX), Ins("A", << >>) >>],
      [line |-> join(<<UAL100, <<"L">>, <<"A">>, <<"C">>, ALFIX>>),
       echo |-> join(<<UAL100, <<"L">>, <<"A">>, <<"C">>, ALFIX>>),
       ins  |-> << Ins("L", <<"A">>), Ins("C", ALFIX) >>],
      [line |-> join(<<UAL100, <<"C">>, ALFIX, <<"A">>, <<"L">>, <<"A">>, <<"C">>,
                       <<"0", "9", "0">>>>),
       echo |-> join(<<UAL100, <<"C">>, ALFIX, <<"A">>, <<"L">>, <<"A">>, <<"C">>,
                       <<"0", "9", "0">>>>),
       ins  |-> << Ins("C", ALFIX), Ins("A", << >>), Ins("L", <<"A">>),
                   Ins("C", <<"0", "9", "0">>) >>],
      [line |-> join(<<UAL100, <<"T">>, <<"C">>, <<"5">>>>),
       echo |-> join(<<UAL100, <<"T">>, <<"C">>, <<"5">>>>),
       ins  |-> << Ins("T", << >>), Ins("C", <<"5">>) >>],
      [line |-> join(<<UAL100, <<"L">>, ZZ>>),
       echo |-> join(<<UAL100, <<"L">>, ZZ>>),
       ins  |-> << Ins("L", ZZ) >>],
      [line |-> join(<<UAL100, <<"S">>, <<"2", "0", "0">>, <<"W">>>>),
       echo |-> join(<<UAL100, <<"S">>, <<"2", "0", "0">>, <<"W">>>>),
       ins  |-> << Ins("W", << >>) >>],
      [line |-> <<" ", "u", "a", "l", "1", "0", "0", " ", " ", "c", "\t", "0", "5", "0", " ">>,
       echo |-> <<" ", "U", "A", "L", "1", "0", "0", " ", " ", "C", "\t", "0", "5", "0", " ">>,
       ins  |-> << Ins("C", <<"0", "5", "0">>) >>] }

C20_IncompleteTail ==
    [][ last'.op = "cmd" =>
          \A id \in CmdIds :
              LET k == getAircraft(aircrafts, id)
              IN  k # 0 =>
                  /\ last'.cmdStr = join(<<id, <<"C">>, <<"5">>, <<"C">>>>) =>
                        /\ aircrafts' = [aircrafts EXCEPT ![k].targetAltitude = 500,
                                                          ![k].expedite = FALSE]
                        /\ Msgs(logs') = << ">", "altitude" >>
                  /\ last'.cmdStr = join(<<id, <<"A">>, <<"L">>>>) =>
                        /\ aircrafts' = [aircrafts EXCEPT ![k].navFix = Null,
                                                          ![k].landingRunway = Null]
                        /\ Msgs(logs') = << ">", "approach aborted" >>
                  /\ last'.cmdStr = join(<<id, <<"C">>>>) =>
                        /\ aircrafts' = aircrafts
                        /\ Msgs(logs') = << ">" >>
      ]_vars

\* C20 witness: 'UAL100 C 5 C' left the altitude clearance 5 and logged it alone
C20_Witness ==
    /\ last.cmdStr = join(<<UAL100, <<"C">>, <<"5">>, <<"C">>>>)
    /\ aircrafts[1].targetAltitude = 500
    /\ Msgs(logs) = << ">", "altitude" >>


\* the aircraft is in the air, cleared to land, and not touching down in this update
OnApproach(ac) ==
    /\ ac.landingRunway # Null
    /\ ac.navFix = Null
    /\ ~ac.isOnGround
    /\ ~( /\ HypotLt(ac.landingRunway[1].x - ac.x, ac.landingRunway[1].y - ac.y, 500)
          /\ ac.altitude < 500
          /\ ac.targetAltitude = 0 )

\* the threshold of the runway the aircraft is cleared to is closer than r
ThresholdWithin(ac, r) ==
    HypotLt(ac.landingRunway[1].x - ac.x, ac.landingRunway[1].y - ac.y, r)

\* C21: an update of an aircraft on approach whose heading is within 40 degrees of
\* arc of the runway heading and whose threshold is closer than 12 leaves
\* targetAltitude 0, and targetHeading the runway heading when the threshold is
\* closer than 1 and the bearing to the threshold otherwise.
C21_AlignedByAngle ==
    [][ last'.op = "loop" =>
          \A i \in 1..Len(aircrafts) :
              ( /\ OnApproach(aircrafts[i])
                /\ ArcDist(aircrafts[i].heading, aircrafts[i].landingRunway[1].heading) < 4000
                /\ ThresholdWithin(aircrafts[i], 12000) ) =>
                  /\ updated'[i].targetAltitude = 0
                  /\ updated'[i].targetHeading =
                        IF ThresholdWithin(aircrafts[i], 1000)
                        THEN aircrafts[i].landingRunway[1].heading
                        ELSE bearingOf(aircrafts[i].landingRunway[1].x - aircrafts[i].x,
                                       aircrafts[i].landingRunway[1].y - aircrafts[i].y)
      ]_vars


\* update() runs on the aircraft (the ground gate is open) in landing-intercept mode
Intercepting(ac) ==
    /\ ac.landingRunway # Null
    /\ ac.navFix = Null
    /\ ~(ac.isOnGround /\ ~ac.isTakingOff)

\* heading within 40 degrees of the runway heading, or threshold closer than 3
AlignedOrClose(ac) ==
    \/ ArcDist(ac.heading, ac.landingRunway[1].heading) < 4000
    \/ ThresholdWithin(ac, 3000)

\* C22: in landing-intercept mode an update changes targetAltitude only to 0, and
\* only when aligned with the threshold closer than 12 or unaligned with it closer
\* than 2; with the threshold at 12 or more targetAltitude is unchanged, and at 15
\* or more targetHeading becomes the bearing to the threshold.
C22_DescentGate ==
    [][ last'.op = "loop" =>
          \A i \in 1..Len(aircrafts) :
              Intercepting(aircrafts[i]) =>
                  /\ updated'[i].targetAltitude # aircrafts[i].targetAltitude =>
                        /\ updated'[i].targetAltitude = 0
                        /\ \/ AlignedOrClose(aircrafts[i]) /\ ThresholdWithin(aircrafts[i], 12000)
                           \/ ~AlignedOrClose(aircrafts[i]) /\ ThresholdWithin(aircrafts[i], 2000)
                  /\ ~ThresholdWithin(aircrafts[i], 12000) =>
                        updated'[i].targetAltitude = aircrafts[i].targetAltitude
                  /\ ~ThresholdWithin(aircrafts[i], 15000) =>
                        updated'[i].targetHeading =
                            bearingOf(aircrafts[i].landingRunway[1].x - aircrafts[i].x,
                                      aircrafts[i].landingRunway[1].y - aircrafts[i].y)
      ]_vars

\* C22 witness: six miles out and aligned, an update began the descent from 20
C22_Witness ==
    /\ last.op = "loop"
    /\ \E i \in 1..Len(updated) :
          /\ updated[i].landingRunway # Null
          /\ updated[i].targetAltitude = 0
          /\ updated[i].altitude > 1900
          /\ ~ThresholdWithin(updated[i], 3000)
          /\ ThresholdWithin(updated[i], 12000)


\* C23: the update in which an aircraft touches down leaves its targetHeading and
\* its targetAltitude as they were.
C23_TouchdownSkipsIntercept ==
    [][ last'.op = "loop" =>
          \A i \in 1..Len(aircrafts) :
              (~aircrafts[i].isOnGround /\ updated'[i].isOnGround) =>
                  /\ updated'[i].targetHeading = aircrafts[i].targetHeading
                  /\ updated'[i].targetAltitude = aircrafts[i].targetAltitude
      ]_vars

\* C24: takeoff() on a grounded aircraft with targetAltitude > 0 sets isTakingOff, clears
\* isOnGround, sets speed to the landing speed and targetSpeed to the cruise speed; in any
\* other state it changes no field.
C24_TakeoffContract ==
    [][ last'.op = "takeoff" =>
          \A i \in 1..Len(aircrafts) :
              IF aircrafts[i].id = last'.cmdStr
                 /\ aircrafts[i].isOnGround /\ aircrafts[i].targetAltitude > 0
              THEN /\ aircrafts'[i].isTakingOff
                   /\ ~aircrafts'[i].isOnGround
                   /\ aircrafts'[i].speed = 14000
                   /\ aircrafts'[i].targetSpeed = 25000
                   /\ [aircrafts'[i] EXCEPT !.isTakingOff = FALSE, !.isOnGround = TRUE,
                                            !.speed = 0, !.targetSpeed = 0]
                        = [aircrafts[i] EXCEPT !.isTakingOff = FALSE, !.isOnGround = TRUE,
                                               !.speed = 0, !.targetSpeed = 0]
              ELSE aircrafts'[i] = aircrafts[i]
      ]_vars

\* a departure at the gate with an altitude clearance has just been sent off by takeoff()
C24_Witness ==
    /\ last.op = "takeoff"
    /\ \E i \in 1..Len(aircrafts) :
          /\ aircrafts[i].id = last.cmdStr
          /\ aircrafts[i].isTakingOff /\ ~aircrafts[i].isOnGround
          /\ aircrafts[i].altitude = 0 /\ aircrafts[i].targetAltitude > 0
          /\ aircrafts[i].speed = speed_landing

\* C25: update(dt) on an aircraft that is on the ground and not taking off changes no
\* field of it, whatever targets or navigation mode it carries.
C25_GroundGate ==
    [][ last'.op = "loop" =>
          \A i \in 1..Len(aircrafts) :
              (aircrafts[i].isOnGround /\ ~aircrafts[i].isTakingOff) =>
                  updated'[i] = aircrafts[i]
      ]_vars

\* a departure at the gate, given an altitude and a runway to land on, after two frames
C25_Witness ==
    /\ last.op = "loop" /\ ticksLeft = MaxTicksTakeoff - 2
    /\ Len(aircrafts) = 1
    /\ aircrafts[1].isOnGround /\ ~aircrafts[1].isTakingOff
    /\ aircrafts[1].targetAltitude = 500
    /\ aircrafts[1].landingRunway # Null
    /\ aircrafts[1].altitude = 0 /\ aircrafts[1].speed = 0 /\ aircrafts[1].history = << >>

\* C26: with positive y north and positive x east, one update of a moving airborne
\* aircraft increases y and keeps x at heading 0, increases x and keeps y at heading 90,
\* decreases y at heading 180 and decreases x at heading 270.
C26_NorthIsPositiveY ==
    [][ last'.op = "loop" =>
          \A i \in 1..Len(aircrafts) :
              (~(aircrafts[i].isOnGround /\ ~aircrafts[i].isTakingOff) /\ updated'[i].speed > 0) =>
                  /\ updated'[i].heading = 0 =>
                        updated'[i].y > aircrafts[i].y /\ updated'[i].x = aircrafts[i].x
                  /\ updated'[i].heading = 9000 =>
                        updated'[i].x > aircrafts[i].x /\ updated'[i].y = aircrafts[i].y
                  /\ updated'[i].heading = 18000 => updated'[i].y < aircrafts[i].y
                  /\ updated'[i].heading = 27000 => updated'[i].x < aircrafts[i].x
      ]_vars

\* C27: an X or EX right after the value of a C instruction, and an L or R right after
\* that, belong to the C instruction and are not dispatched: in 'ID C 20 L A' the L
\* looks up no runway and sets no landing mode, and A is the next instruction.
C27_MarkersConsumed ==
    [][ last'.op = "cmd" =>
          LET k    == getAircraft(aircrafts, UAL100)
              to20(e) == [aircrafts[k] EXCEPT !.targetAltitude = 2000, !.expedite = e]
              line(toks) == join(<<UAL100, <<"C">>>> \o toks)
          IN  k # 0 =>
              /\ last'.cmdStr = line(<< <<"2", "0">>, <<"L">>, <<"A">> >>) =>
                    /\ aircrafts' = [aircrafts EXCEPT
                          ![k] = [to20(FALSE) EXCEPT !.landingRunway = Null, !.navFix = Null]]
                    /\ Msgs(logs') = << ">", "altitude", "approach aborted" >>
              /\ last'.cmdStr = line(<< <<"2", "0">>, <<"X">>, <<"L">>, <<"A">> >>) =>
                    /\ aircrafts' = [aircrafts EXCEPT
                          ![k] = [to20(TRUE) EXCEPT !.landingRunway = Null, !.navFix = Null]]
                    /\ Msgs(logs') = << ">", "altitude", "approach aborted" >>
              /\ ( /\ last'.cmdStr = line(<< <<"2", "0">>, <<"E", "X">>, <<"R">>, <<"T">> >>)
                   /\ ~aircrafts[k].isOnGround ) =>
                    /\ aircrafts' = [aircrafts EXCEPT ![k] = to20(TRUE)]
                    /\ Msgs(logs') = << ">", "altitude", "already airborne" >>
              /\ last'.cmdStr = line(<< <<"2", "7", "0">>, <<"R">>, <<"W">> >>) =>
                    /\ aircrafts' = [aircrafts EXCEPT
                          ![k] = [aircrafts[k] EXCEPT !.targetHeading = 27000,
                                     !.landingRunway = Null, !.navFix = Null]]
                    /\ Msgs(logs') = << ">", "heading", "hold position" >>
              /\ last'.cmdStr \in { line(<< <<"2", "0">>, <<"L">> >>),
                                    line(<< <<"2", "0">>, <<"L">>, <<"X">> >>) } =>
                    /\ aircrafts' = [aircrafts EXCEPT ![k] = to20(FALSE)]
                    /\ Msgs(logs') = << ">", "altitude" >>
      ]_vars

\* C27 witness: 'UAL100 C 20 L A' on an aircraft low enough to be cleared to land left it
\* with altitude clearance 20 and no landing mode, the log showing the abort
C27_Witness ==
    /\ last.cmdStr = join(<<UAL100, <<"C">>, <<"2", "0">>, <<"L">>, <<"A">>>>)
    /\ aircrafts[1].id = UAL100
    /\ agl(aircrafts[1], airport) <= 3000
    /\ aircrafts[1].targetAltitude = 2000
    /\ aircrafts[1].landingRunway = Null
    /\ Msgs(logs) = << ">", "altitude", "approach aborted" >>

\* command lines to UAL100: whether the line holds an altitude clearance, and whether
\* the last one it holds carries X or EX
C28Cases ==
    { [toks |-> << <<"C">>, <<"5">> >>,                   alt |-> TRUE,  x |-> FALSE],
      [toks |-> << <<"C">>, <<"5">>, <<"X">> >>,          alt |-> TRUE,  x |-> TRUE],
      [toks |-> << <<"C">>, <<"5">>, <<"E", "X">> >>,     alt |-> TRUE,  x |-> TRUE],
      [toks |-> << <<"C">>, <<"-", "5">> >>,              alt |-> TRUE,  x |-> FALSE],
      [toks |-> << <<"C">>, <<"2", "7", "0">> >>,         alt |-> FALSE, x |-> FALSE],
      [toks |-> << <<"C">>, <<"2", "7", "0">>, <<"X">> >>,      alt |-> FALSE, x |-> FALSE],
      [toks |-> << <<"C">>, <<"2", "7", "0">>, <<"E", "X">> >>, alt |-> FALSE, x |-> FALSE],
      [toks |-> << <<"C">>, ALFIX >>,                     alt |-> FALSE, x |-> FALSE],
      [toks |-> << <<"C">>, ALFIX, <<"X">> >>,            alt |-> FALSE, x |-> FALSE],
      [toks |-> << <<"C">>, ALFIX, <<"E", "X">> >>,       alt |-> FALSE, x |-> FALSE],
      [toks |-> << <<"L">>, <<"B">> >>,                   alt |-> FALSE, x |-> FALSE],
      [toks |-> << <<"A">> >>,                            alt |-> FALSE, x |-> FALSE],
      [toks |-> << <<"C">>, <<"2", "0">>, <<"X">>, <<"L">>, <<"A">> >>,
                                                          alt |-> TRUE,  x |-> TRUE],
      [toks |-> << <<"C">>, <<"2", "0">>, <<"L">>, <<"X">> >>,
                                                          alt |-> TRUE,  x |-> FALSE],
      [toks |-> << <<"C">>, <<"2", "0">>, <<"X">>, <<"C">>, <<"2", "7", "0">>, <<"X">> >>,
                                                          alt |-> TRUE,  x |-> TRUE],
      [toks |-> << <<"C">>, <<"2", "0">>, <<"X">>, <<"C">>, ALFIX, <<"E", "X">> >>,
                                                          alt |-> TRUE,  x |-> TRUE],
      [toks |-> << <<"C">>, <<"2", "0">>, <<"X">>, <<"C">>, <<"3", "0">> >>,
                                                          alt |-> TRUE,  x |-> FALSE],
      [toks |-> << <<"C">>, <<"2", "0">>, <<"C">>, <<"3", "0">>, <<"E", "X">> >>,
                                                          alt |-> TRUE,  x |-> TRUE] }

\* C28: after a command line an aircraft's expedite flag is the marker of the last
\* altitude clearance the line gave it, and is what it was if the line gave it none
\* (an X or EX after a heading or a fix changes nothing); frames leave the flag alone.
C28_ExpediteOfLastAltitude ==
    [][ /\ last'.op = "cmd" =>
            LET k == getAircraft(aircrafts, UAL100)
            IN  /\ Len(aircrafts') = Len(aircrafts)
                /\ \A c \in C28Cases :
                      (last'.cmdStr = join(<<UAL100>> \o c.toks) /\ k # 0) =>
                          /\ aircrafts'[k].expedite = (IF c.alt THEN c.x ELSE aircrafts[k].expedite)
                          /\ \A i \in 1..Len(aircrafts) :
                                i # k => aircrafts'[i].expedite = aircrafts[i].expedite
                /\ (\A m \in 1..Len(logs') : logs'[m].msg # "altitude") =>
                      \A i \in 1..Len(aircrafts) : aircrafts'[i].expedite = aircrafts[i].expedite
        /\ last'.op = "loop" =>
            \A i \in 1..Len(aircrafts) : updated'[i].expedite = aircrafts[i].expedite
      ]_vars

\* C28 witness: 'UAL100 C 5' to the aircraft that was descending expedited cleared the flag
C28_Witness ==
    /\ last.cmdStr = join(<<UAL100, <<"C">>, <<"5">>>>)
    /\ aircrafts[1].id = UAL100
    /\ aircrafts[1].landingRunway # Null
    /\ aircrafts[1].altitude = 3000
    /\ aircrafts[1].targetAltitude = 500
    /\ ~aircrafts[1].expedite

\* C29: a tick takes 0.1 off the score for every unordered pair of airborne aircraft
\* closer than 3 miles and 10 altitude units, in every tick the pair is so; an aircraft
\* all of whose pairs have a member on the ground keeps its violation flag.
C29_PenaltyPerPair ==
    [][ last'.op = "loop" =>
          LET gone == { i \in 1..Len(updated') : Terminal(updated'[i]) }
          IN  /\ score' = score + 500 * Cardinality(gone) - ConflictPairs(aircrafts')
              /\ gone = {} =>
                    /\ score' <= score
                    /\ \A i \in 1..Len(updated') :
                          (\A j \in 1..Len(aircrafts') :
                              j # i => (aircrafts'[i].isOnGround \/ aircrafts'[j].isOnGround)) =>
                                aircrafts'[i].violation = updated'[i].violation
      ]_vars

\* C29 witness: two ticks with one pair in violation in both took 0.2 off the score
C29_Witness ==
    /\ last.op = "loop"
    /\ ticksLeft = MaxTicksSep - 2
    /\ cmdsLeft = MaxCmdsSep
    /\ score = -2
    /\ ConflictPairs(aircrafts) = 1

\* the aircraft the last handler added to the list
Added(ev) == SelectSeq(ev, LAMBDA e : e.cb = "onAircraftAdded")

\* C30: the timer-driven spawn fires in a tick exactly when the spawn timer less the
\* tick's dt is <= 0; it adds at most one aircraft and resets the timer into [10, 20);
\* the first one comes no earlier than 2 simulated seconds after the start, and any
\* later one at least 100 ticks after the one before.
C30_SpawnTimer ==
    [][ last'.op = "loop" =>
          LET due == spawnTimer - last'.dt <= 0
          IN  /\ last'.dt <= 10
              /\ due =>
                    /\ spawnTimer' >= 1000 /\ spawnTimer' < 2000
                    /\ Len(Added(events')) <= 1
                    /\ Len(aircrafts') <= Len(aircrafts) + 1
                    /\ spawnClock'.n = spawnClock.n + 1
                    /\ IF spawnClock.n = 0
                       THEN spawnClock.time + last'.dt >= 200
                       ELSE spawnClock.ticks + 1 >= 100
              /\ ~due =>
                    /\ spawnTimer' = spawnTimer - last'.dt
                    /\ Added(events') = << >>
                    /\ Len(aircrafts') <= Len(aircrafts)
                    /\ spawnClock'.n = spawnClock.n
      ]_vars

\* C30 witness: the second timer-driven spawn of a run has just added an aircraft
C30_Witness ==
    /\ last.op = "loop"
    /\ spawnClock.n = 2 /\ spawnClock.ticks = 0
    /\ Len(Added(events)) = 1
    /\ spawnTimer >= 1000

=============================================================================
